---- MODULE Spec2Model ----
(***************************************************************************)
(* Model of cvnn/cvnn_v1_compat.py: the life cycle of Cvnn instances       *)
(* (construction, graph build, meta restore, training, teardown) over the  *)
(* shared log tree ./log/<name>/run-<now>/.                                *)
(*                                                                         *)
(* Abstractions.  Tensor values are not modelled: the parameter tensors of *)
(* an instance are one natural number w (0 = the value the variable        *)
(* initialisers produce, +1 for every run of the update ops).  File times   *)
(* are pairs <<t, j>>: the logical clock t ticks once per call that writes *)
(* to the log tree, j numbers the writes of that call in program order.    *)
(* A directory's ctime is the time of the last creation or removal of one  *)
(* of its direct entries (os.path.getctime on Unix).                       *)
(* Calls into the ML runtime are taken to succeed; what is modelled is the *)
(* Python of the repository: attribute reads and writes on self, the       *)
(* sys.exit calls, the directory searches and the file writes.             *)
(***************************************************************************)
EXTENDS Integers, Sequences, FiniteSets, TLC

VARIABLES second, clock, fs, inst, last, data

vars == <<second, clock, fs, inst, last, data>>

\* ---------------------------------------------------------------- bounds
MaxClock == 5
MaxBuilds == 2
MaxTrains == 2

Insts == {1, 2, 3}
Names == {"a", "b"}
\* run-<now>: seconds are counted from the first construction, and
\* every construction happens in the second of the one before or in a later one
Seconds == 0..(Cardinality(Insts) - 1)
RunKeys == Names \X Seconds

\* ------------------------------------------------------------ graph build
\* An activation or loss argument: a string, a callable (with the module that
\* declares it) or something else.
StrArg(n) == [kind |-> "str", name |-> n, module |-> ""]
Callable(m, n) == [kind |-> "callable", name |-> n, module |-> m]
OtherArg == [kind |-> "other", name |-> "", module |-> ""]

\* keys of act_dispatcher and loss_dispatcher
ActNames == {"linear", "cart_sigmoid", "cart_elu", "cart_exponential",
             "cart_hard_sigmoid", "cart_relu", "cart_selu", "cart_softplus",
             "cart_softsign", "cart_tanh", "cart_softmax", "cart_softmax_real"}
LossNames == {"mean_square", "categorical_crossentropy"}

\* the modules _apply_activation and _apply_loss accept callables from
ActModules == {"activation_functions", "tensorflow.python.keras.activations"}
LossModules == {"losses", "tensorflow.python.keras.losses"}

\* act.linear and loss.mean_square as this file imports them
\* (import cvnn.activation_functions as act, import cvnn.losses as loss)
ActLinear == Callable("cvnn.activation_functions", "linear")
LossMeanSquare == Callable("cvnn.losses", "mean_square")

\* a built graph: variables lists the shapes of the tf.Variables in creation
\* order, out_dtype is the dtype of the tensor the last activation returns,
\* y_out_width and y_out_dtype describe the tensor exposed as y_out,
\* training_op counts the assign operations
NoGraph == [shape |-> <<>>, input_dtype |-> "", output_dtype |-> "",
            out_dtype |-> "", y_out_dtype |-> "", y_out_width |-> 0, nvars |-> 0,
            variables |-> <<>>, training_op |-> 0, loss |-> ""]

\* ------------------------------------------------------------ file system
\* One run directory log/<name>/run-<now>/ : its ctime, metadata.txt (<<>>
\* when the file does not exist), the checkpoints of saved_models/, and
\* <name>.csv (<<>> when the file does not exist). The text of metadata.txt
\* is the sequence of its pieces between newline characters, text.split("\n"),
\* each piece the tuple of its fields: a text that ends with a newline has
\* <<>> as its last piece, a text whose last line is not terminated has that
\* line as its last piece, and the empty file is << <<>> >>.
NoDir == [exists |-> FALSE, ctime |-> <<0, 0>>, meta |-> <<>>, ckpts |-> {}, csv |-> <<>>]

\* tf.Variable(...) of the dense layers: the variables hold no value until
\* the initialisers run or a checkpoint is restored
Uninit == -1

\* Cvnn.__init__: the attributes of an instance.  attrs is the set of the
\* attributes bound on self by the graph methods, opened and closed count the
\* sessions acquired and closed, hist is the length of saved_loss_acc_vectors,
\* kept is the list of checkpoints self.saver has written and not deleted
\* (Saver._last_checkpoints, oldest first).
NoInst == [status |-> "none", name |-> "a", now |-> 0,
           automatic_restore |-> FALSE, save_loss_acc |-> FALSE,
           tensorboard |-> FALSE, restored_meta |-> FALSE,
           attrs |-> {}, graph |-> NoGraph, w |-> Uninit,
           opened |-> 0, closed |-> 0, trains |-> 0, hist |-> 0,
           kept |-> <<>>]

\* one checkpoint epoch<E>-iteration<I>-loss<L>.ckpt(.meta, .index, .data)
NoCkpt == [name |-> <<"", "", "">>, ctime |-> <<0, 0>>, w |-> 0, graph |-> NoGraph]
NoSel == [found |-> FALSE, run |-> <<"a", 0>>, ckpt |-> NoCkpt]

\* the last call made: its operation, instance, outcome, the instance before
\* and after it, the run directory before it, the checkpoint file a restore
\* selected (given: the caller named it), the arguments the claims read (for
\* a build also the shape and the loss argument), and
\* for train the parameters its first batch starts from, the cumulative
\* steps at which a checkpoint was saved, and the batches <<epoch, start,
\* end>> an update ran on (looped: the call got as far as the epoch loop)
\* and the trace of its operations, fresh: its _init_weights ran the
\* initialisers;
\* result: what a function of data_processing returned
NoCall == [op |-> "none", i |-> 0, outcome |-> "ok", pre |-> NoInst,
           post |-> NoInst, predir |-> NoDir, sel |-> NoSel, given |-> FALSE,
           args |-> <<>>, shape |-> <<>>, loss_func |-> OtherArg,
           w0 |-> Uninit, saved |-> <<>>, batches |-> <<>>,
           looped |-> FALSE, events |-> <<>>, fresh |-> FALSE,
           result |-> <<>>]

\* the dtype of the tensor an activation returns: cart_softmax_real returns
\* a real tensor, the others keep the dtype of their input
ActDType(name, dtype) ==
    IF name = "cart_softmax_real" THEN "float32" ELSE dtype

\* an _apply_activation that ends the process on a string it does not know
ApplyActivationStrict(a, dt) ==
    IF a.kind = "callable"
    THEN IF a.module \in ActModules
         THEN [outcome |-> "ok", dtype |-> ActDType(a.name, dt)]
         ELSE [outcome |-> "exit", dtype |-> dt]
    ELSE IF a.kind = "str"
    THEN IF a.name \in ActNames
         THEN [outcome |-> "ok", dtype |-> ActDType(a.name, dt)]
         ELSE [outcome |-> "exit", dtype |-> dt]
    ELSE [outcome |-> "ok", dtype |-> "none"]

\* Cvnn._apply_activation(act_fun, out) on a tensor of dtype dt: the outcome
\* and the dtype of the result ("none" when the function returns None)
ApplyActivation(a, dt) ==
    IF a.kind = "callable"
    THEN IF a.module \in ActModules
         THEN [outcome |-> "ok", dtype |-> ActDType(a.name, dt)]
         ELSE [outcome |-> "exit", dtype |-> dt]
    ELSE IF a.kind = "str"
    THEN IF a.name \in ActNames
         THEN [outcome |-> "ok", dtype |-> ActDType(a.name, dt)]
         ELSE [outcome |-> "ok", dtype |-> dt]
    ELSE [outcome |-> "ok", dtype |-> "none"]

\* Cvnn._get_func_name(fun)
GetFuncName(a) ==
    IF a.kind \in {"callable", "str"}
    THEN [outcome |-> "ok", name |-> a.name]
    ELSE [outcome |-> "exit", name |-> ""]

\* the line _append_graph_structure writes for layer i of shape
LayerLine(shape, i) ==
    LET fun_name == GetFuncName(shape[i].act).name
    IN IF i = 1 THEN <<"input layer", ToString(shape[i].width), fun_name>>
       ELSE IF i = Len(shape)
       THEN <<"output layer", ToString(shape[i].width), fun_name>>
       ELSE <<"hidden layer", ToString(i - 1), ToString(shape[i].width), fun_name>>

\* file.write("\n"): the last piece of the text is closed and an empty one
\* begun
WriteNewline(meta) == Append(meta, <<>>)

\* file.write(text) of a text without newline: the text goes to the end of
\* the last piece
WriteText(meta, fields) == [meta EXCEPT ![Len(meta)] = @ \o fields]

\* the lines of the file: its pieces, without the empty piece after a final
\* newline
FileLines(meta) ==
    IF meta # <<>> /\ meta[Len(meta)] = <<>> THEN SubSeq(meta, 1, Len(meta) - 1)
    ELSE meta

\* the for loop of _append_graph_structure from layer i on: it stops at the
\* first layer whose function name is not recognizable (sys.exit while the
\* file is open: the lines written so far stay)
RECURSIVE AppendLayers(_, _, _)
AppendLayers(meta, shape, i) ==
    IF i > Len(shape) THEN [outcome |-> "ok", meta |-> meta]
    ELSE IF GetFuncName(shape[i].act).outcome = "exit"
    THEN [outcome |-> "exit", meta |-> meta]
    ELSE AppendLayers(WriteNewline(WriteText(meta, LayerLine(shape, i))), shape, i + 1)

\* an _append_graph_structure without the existence test of lines 161-162:
\* open(..., "a") creates the file
AppendGraphStructureCreate(meta, shape) ==
    AppendLayers(WriteNewline(IF meta = <<>> THEN << <<>> >> ELSE meta), shape, 1)

\* Cvnn._append_graph_structure(shape) on the metadata file of the run: the
\* newline written first ends the last line of the header, which
\* _save_object_summary leaves without one, or, after an earlier append,
\* makes an empty line
AppendGraphStructure(meta, shape) ==
    IF meta = <<>> THEN [outcome |-> "exit", meta |-> meta]
    ELSE AppendLayers(WriteNewline(meta), shape, 1)

\* a dense layer that creates its weight matrix only
DenseLayerWeightOnly(input_size, output_size) ==
    << <<input_size, output_size>> >>

\* the variables [w, b] of _create_dense_layer and
\* _create_complex_dense_layer: a weight matrix and a bias vector
DenseLayerVars(input_size, output_size) ==
    << <<input_size, output_size>>, <<output_size>> >>

\* the layer loop of _create_graph_from_shape from layer i on; dt is the
\* dtype of the tensor built so far, variables the shapes of the variables
\* created so far
RECURSIVE DenseLayers(_, _, _, _, _)
DenseLayers(shape, input_dtype, i, dt, variables) ==
    IF i > Len(shape) - 1
    THEN [outcome |-> "ok", dtype |-> dt, variables |-> variables]
    ELSE IF input_dtype \notin {"complex64", "float32"}
    THEN [outcome |-> "exit", dtype |-> dt, variables |-> variables]
    ELSE IF dt # input_dtype
    \* tf.matmul of None, or of a tensor whose dtype is not the weights'
    THEN [outcome |-> "raise", dtype |-> dt, variables |-> variables]
    ELSE LET a == ApplyActivation(shape[i + 1].act, input_dtype)
             vs == variables \o DenseLayerVars(shape[i].width, shape[i + 1].width)
         IN IF a.outcome # "ok"
            THEN [outcome |-> a.outcome, dtype |-> dt, variables |-> vs]
            ELSE DenseLayers(shape, input_dtype, i + 1, a.dtype, vs)

\* an output that is exposed as the last activation returns it
OutputAsIs(output_dtype, dt) == dt

\* lines 315-316: tf.abs when the dtype of y_out is not output_dtype; tf.abs
\* of a complex tensor is a float32 tensor, of a real tensor the same dtype
OutputProjection(output_dtype, dt) ==
    IF output_dtype # dt
    THEN (IF dt = "complex64" THEN "float32" ELSE dt)
    ELSE dt

\* Cvnn._create_graph_from_shape after the length check (lines 297-317)
GraphFromShape(meta, shape, input_dtype, output_dtype) ==
    LET a0 == ApplyActivation(shape[1].act, input_dtype)
        ls == IF a0.outcome = "ok"
              THEN DenseLayers(shape, input_dtype, 1, a0.dtype, <<>>)
              ELSE [outcome |-> a0.outcome, dtype |-> a0.dtype, variables |-> <<>>]
        \* tf.identity(None) raises
        out == IF ls.outcome = "ok" /\ ls.dtype = "none" THEN "raise" ELSE ls.outcome
        app == AppendGraphStructure(meta, shape)
    IN IF out # "ok"
       THEN [outcome |-> out, attrs |-> {"X", "y"}, graph |-> NoGraph, meta |-> meta]
       ELSE [outcome |-> app.outcome, attrs |-> {"X", "y"},
             graph |-> [NoGraph EXCEPT
                          !.shape = shape, !.input_dtype = input_dtype,
                          !.output_dtype = output_dtype,
                          !.out_dtype = ls.dtype,
                          !.y_out_dtype = OutputProjection(output_dtype, ls.dtype),
                          !.y_out_width = shape[Len(shape)].width,
                          !.nvars = Len(ls.variables),
                          !.variables = ls.variables],
             meta |-> app.meta]

\* a _create_graph_from_shape without the length check of line 295
CreateGraphFromShapeAnyLength(meta, shape, input_dtype, output_dtype) ==
    GraphFromShape(meta, shape, input_dtype, output_dtype)

\* Cvnn._create_graph_from_shape(shape, input_dtype, output_dtype): the
\* outcome, the attributes bound on self, the graph and the metadata file
CreateGraphFromShape(meta, shape, input_dtype, output_dtype) ==
    IF Len(shape) < 2
    THEN [outcome |-> "exit", attrs |-> {}, graph |-> NoGraph, meta |-> meta]
    ELSE GraphFromShape(meta, shape, input_dtype, output_dtype)

\* an _apply_loss that falls back to mean_square for what it does not know
ApplyLossFallback(l) ==
    IF l.kind = "callable" /\ l.module \notin LossModules
    THEN [outcome |-> "exit", name |-> ""]
    ELSE IF l.kind \in {"callable", "str"} /\ (l.kind = "callable" \/ l.name \in LossNames)
    THEN [outcome |-> "ok", name |-> l.name]
    ELSE [outcome |-> "ok", name |-> "mean_square"]

\* Cvnn._apply_loss(loss_func): the outcome and the name of the loss op
ApplyLoss(l) ==
    IF l.kind = "callable"
    THEN IF l.module \notin LossModules
         THEN [outcome |-> "exit", name |-> ""]
         ELSE [outcome |-> "ok", name |-> l.name]
    ELSE IF l.kind = "str"
    THEN IF l.name \in LossNames
         THEN [outcome |-> "ok", name |-> l.name]
         ELSE [outcome |-> "exit", name |-> ""]
    ELSE [outcome |-> "exit", name |-> ""]

\* the attributes create_mlp_graph binds after the loss (lines 351-377)
BuiltAttrs(tensorboard) ==
    {"acc", "training_op", "init", "sess", "saver"}
        \cup (IF tensorboard THEN {"writer", "merged"} ELSE {})

\* Cvnn.create_mlp_graph from "Reset latest graph" on (lines 340-377), on
\* instance record r with metadata file meta
BuildMlpGraph(r, meta, loss_func, shape, input_dtype, output_dtype) ==
    LET g == CreateGraphFromShape(meta, shape, input_dtype, output_dtype)
        l == ApplyLoss(loss_func)
        r1 == [r EXCEPT !.attrs = @ \cup g.attrs]
    IN IF g.outcome # "ok"
       THEN [outcome |-> g.outcome, r |-> r1, meta |-> g.meta]
       ELSE IF l.outcome # "ok"
       THEN [outcome |-> l.outcome,
             r |-> [r1 EXCEPT !.attrs = @ \cup {"y_out"}], meta |-> g.meta]
       ELSE [outcome |-> "ok",
             r |-> [r1 EXCEPT
                      !.attrs = @ \cup {"y_out", "loss"} \cup BuiltAttrs(r.tensorboard),
                      !.graph = [g.graph EXCEPT !.loss = l.name,
                                                !.training_op = Len(g.graph.variables)],
                      !.w = Uninit,
                      !.opened = @ + 1,
                      !.kept = <<>>],          \* line 377: a new Saver

             meta |-> g.meta]

\* a create_mlp_graph whose dtype check rejects a complex input with a real
\* output
CreateMlpGraphOpSwapped(r, meta, loss_func, shape, input_dtype, output_dtype) ==
    IF output_dtype = "float32" /\ input_dtype = "complex64"
    THEN [outcome |-> "exit", r |-> r, meta |-> meta]
    ELSE IF r.restored_meta
    THEN [outcome |-> "ok", r |-> r, meta |-> meta]
    ELSE BuildMlpGraph(r, meta, loss_func, shape, input_dtype, output_dtype)

\* a create_mlp_graph without the restored_meta check of line 337
CreateMlpGraphOpRebuild(r, meta, loss_func, shape, input_dtype, output_dtype) ==
    IF output_dtype = "complex64" /\ input_dtype = "float32"
    THEN [outcome |-> "exit", r |-> r, meta |-> meta]
    ELSE BuildMlpGraph(r, meta, loss_func, shape, input_dtype, output_dtype)

\* Cvnn.create_mlp_graph(loss_func, shape, input_dtype, output_dtype)
CreateMlpGraphOp(r, meta, loss_func, shape, input_dtype, output_dtype) ==
    IF output_dtype = "complex64" /\ input_dtype = "float32"
    THEN [outcome |-> "exit", r |-> r, meta |-> meta]
    ELSE IF r.restored_meta
    THEN [outcome |-> "ok", r |-> r, meta |-> meta]
    ELSE BuildMlpGraph(r, meta, loss_func, shape, input_dtype, output_dtype)

\* ------------------------------------------------- restore and construction
RunOf(r) == <<r.name, r.now>>

\* file time a is not later than file time b
NotLater(a, b) == a[1] < b[1] \/ (a[1] = b[1] /\ a[2] <= b[2])

\* max(list, key=os.path.getctime) over run directories
NewestFolder(f, folders) ==
    CHOOSE k \in folders : \A j \in folders : NotLater(f[j].ctime, f[k].ctime)

\* max(list_of_files, key=os.path.getctime) over checkpoint files
NewestFile(files) ==
    CHOOSE c \in files : \A d \in files : NotLater(d.ctime, c.ctime)

\* a folder list taken from the log root, over the runs of every name
ListOfFoldersAnyName(f, name) == {k \in RunKeys : f[k].exists}

\* glob.glob(parent_dir + '/*') with parent_dir = savedir + '../../' = log/<name>
ListOfFolders(f, name) == {k \in RunKeys : k[1] = name /\ f[k].exists}

\* the while loop of restore_graph_from_meta: newest remaining folder first,
\* the newest *.ckpt.meta of the first folder that has one
RECURSIVE SearchFolders(_, _)
SearchFolders(f, folders) ==
    IF folders = {} THEN NoSel
    ELSE LET latest_folder == NewestFolder(f, folders)
             list_of_files == f[latest_folder].ckpts
         IN IF list_of_files # {}
            THEN [found |-> TRUE, run |-> latest_folder,
                  ckpt |-> NewestFile(list_of_files)]
            ELSE SearchFolders(f, folders \ {latest_folder})

\* restore_graph_from_meta, automatic branch: the newest folder is dropped
\* unread, then the loop runs over the rest
FindLatestMeta(f, name) ==
    LET list_of_folders == ListOfFolders(f, name)
    IN IF list_of_folders = {} THEN NoSel
       ELSE SearchFolders(f, list_of_folders \ {NewestFolder(f, list_of_folders)})

Str(b) == IF b THEN "True" ELSE "False"

\* the attributes restore_graph_from_meta binds on self (lines 450-465)
RestoredAttrs(tensorboard) ==
    {"loss", "X", "y", "y_out", "training_op", "saver"}
        \cup (IF tensorboard THEN {"writer", "loss_summary", "merged"} ELSE {})

\* a restore that goes on to import the graph when the search found no file
RestoreGraphFromMetaNoReturn(f, r, given) ==
    LET sel == IF ~given.found /\ r.automatic_restore
               THEN FindLatestMeta(f, r.name) ELSE given
    IN IF ~given.found /\ ~r.automatic_restore
       THEN [outcome |-> "exit", r |-> r, sel |-> NoSel]
       ELSE IF ~sel.found \/ "sess" \notin r.attrs
       THEN [outcome |-> "raise", r |-> [r EXCEPT !.restored_meta = TRUE], sel |-> sel]
       ELSE [outcome |-> "ok",
             r |-> [r EXCEPT !.restored_meta = TRUE,
                             !.w = sel.ckpt.w,
                             !.graph = sel.ckpt.graph,
                             !.kept = <<>>,     \* line 465: a new Saver
                             !.attrs = @ \cup RestoredAttrs(r.tensorboard)],
             sel |-> sel]

\* Cvnn.restore_graph_from_meta(latest_file).  given = NoSel stands for
\* latest_file=None, otherwise it names the checkpoint file the caller passes.
\* The result is the outcome of the call ("ok" returned, "exit" sys.exit,
\* "raise" uncaught exception), the instance afterwards and the file used.
RestoreGraphFromMeta(f, r, given) ==
    LET sel == IF ~given.found /\ r.automatic_restore
               THEN FindLatestMeta(f, r.name) ELSE given
    IN IF ~given.found /\ ~r.automatic_restore
       THEN [outcome |-> "exit", r |-> r, sel |-> NoSel]
       ELSE IF ~sel.found
       THEN [outcome |-> "ok", r |-> r, sel |-> NoSel]
       ELSE IF "sess" \notin r.attrs
       \* line 437 has run, line 444 reads self.sess: AttributeError
       THEN [outcome |-> "raise", r |-> [r EXCEPT !.restored_meta = TRUE], sel |-> sel]
       ELSE [outcome |-> "ok",
             r |-> [r EXCEPT !.restored_meta = TRUE,
                             !.w = sel.ckpt.w,
                             !.graph = sel.ckpt.graph,
                             !.kept = <<>>,     \* line 465: a new Saver
                             !.attrs = @ \cup RestoredAttrs(r.tensorboard)],
             sel |-> sel]

\* the text _save_object_summary writes to metadata.txt: seven lines, the
\* last without a newline
MetaHeader(r) ==
    << <<r.name>>, <<ToString(r.now)>>,
       <<"automatic_restore", Str(r.automatic_restore)>>,
       <<"Restored", Str(r.restored_meta)>>,
       <<"Tensorboard enabled", Str(r.tensorboard)>>,
       <<"Learning Rate", "0.001">>,
       <<"Weight initialization", "uniform distribution over [0, 1)">> >>

\* a summary written with open(metadata_filename, "w")
SaveObjectSummaryTruncate(d, r, t) ==
    [outcome |-> "ok", d |-> [d EXCEPT !.meta = MetaHeader(r), !.ctime = t]]

\* Cvnn._save_object_summary: open(metadata_filename, "x") creates the file,
\* or FileExistsError and sys.exit
SaveObjectSummary(d, r, t) ==
    IF d.meta # <<>>
    THEN [outcome |-> "exit", d |-> d]
    ELSE [outcome |-> "ok", d |-> [d EXCEPT !.meta = MetaHeader(r), !.ctime = t]]

\* os.makedirs of tensorboard_logs/ and saved_models/ when they do not exist
MakeDirs(d, t) == IF d.exists THEN d ELSE [NoDir EXCEPT !.exists = TRUE, !.ctime = t]

\* ---------------------------------------------------------------- training
\* sess.run(self.loss, ...): the loss of parameters w on the data fed
LossValue(w) == IF w < 2 THEN 2 - w ELSE 0

\* str(loss_batch) of a float: the characters of its decimal form
FloatStr(loss_batch) == <<ToString(loss_batch), ".", "0">>

\* s.replace('.', ',') on a string given by its characters
ReplaceDot(str) == [k \in DOMAIN str |-> IF str[k] = "." THEN "," ELSE str[k]]

\* "{}epoch{}-iteration{}-loss{}.ckpt".format(savedir, epoch, iteration,
\* str(loss_batch).replace('.', ','))
CkptName(epoch, iteration, loss_batch) ==
    <<epoch, iteration, ReplaceDot(FloatStr(loss_batch))>>

\* tf.compat.v1.train.Saver() of lines 377 and 465: max_to_keep has its
\* default
max_to_keep == 5

\* the list paths without the entries equal to n
\* (Saver.save records the path it wrote: an older entry of the same path is
\* removed, the path is appended, and beyond max_to_keep entries the oldest
\* one is taken off the list to be deleted)
RECURSIVE Remove(_, _)
Remove(paths, n) ==
    IF paths = <<>> THEN <<>>
    ELSE IF Head(paths) = n THEN Remove(Tail(paths), n)
    ELSE <<Head(paths)>> \o Remove(Tail(paths), n)

RecordLastCheckpoint(kept, n) ==
    LET rec == Append(Remove(kept, n), n)
    IN IF Len(rec) > max_to_keep
       THEN [kept |-> Tail(rec), delete |-> {Head(rec)}]
       ELSE [kept |-> rec, delete |-> {}]

\* Cvnn.save_model(epoch, iteration, loss_batch) at file time t into run dir d
\* by a saver whose list is kept: saver.save writes the files of that name,
\* replacing older ones, and deletes the files of the checkpoint that left
\* the list.  The result is the directory and the list afterwards.
SaveModel(d, kept, r, w, epoch, iteration, loss_batch, t) ==
    LET n == CkptName(epoch, iteration, loss_batch)
        rec == RecordLastCheckpoint(kept, n)
    IN [d |-> [d EXCEPT !.ckpts =
                  {c \in @ : c.name # n /\ c.name \notin rec.delete}
                     \cup {[name |-> n, ctime |-> t, w |-> w, graph |-> r.graph]}],
        kept |-> rec.kept]

\* glob.glob(latest_folder + '/*.ckpt.data*') in _init_weights, where
\* latest_folder is an entry of saved_models/: a checkpoint file is a regular
\* file, so nothing matches below it
GlobBelowEntry(c) == {}

\* an _init_weights that runs the initialisers whatever restored_meta says
InitWeightsAnyway(r, d) ==
    IF "init" \in r.attrs THEN [outcome |-> "ok", w |-> 0, fresh |-> TRUE]
    ELSE [outcome |-> "raise", w |-> r.w, fresh |-> FALSE]

\* Cvnn._init_weights() as train calls it (latest_file=None) with the run's
\* directory d: the outcome, the parameters afterwards, and whether they are
\* freshly drawn by the initialisers
InitWeights(r, d) ==
    IF r.restored_meta THEN [outcome |-> "ok", w |-> r.w, fresh |-> FALSE]
    ELSE IF r.automatic_restore /\ d.ckpts # {}
    THEN LET latest_folder == NewestFile(d.ckpts)
             list_of_files == GlobBelowEntry(latest_folder)
         IN IF list_of_files = {}
            THEN [outcome |-> "raise", w |-> r.w, fresh |-> FALSE]  \* max() of an empty list
            ELSE [outcome |-> "ok", w |-> NewestFile(list_of_files).w, fresh |-> FALSE]
    ELSE IF "init" \in r.attrs
    THEN [outcome |-> "ok", w |-> 0, fresh |-> TRUE]    \* sess.run(self.init)
    ELSE [outcome |-> "raise", w |-> r.w, fresh |-> FALSE]

\* the row save_loss_and_acc writes for parameters w
CsvHeader == <<"train loss", "train acc", "test loss", "test acc">>
CsvRow(w) == <<ToString(LossValue(w)), ToString(w)>>

\* a save_loss_and_acc that writes the header and resets the vectors at
\* every call
SaveLossAndAccHeaderAlways(r, st, t) ==
    IF ~r.save_loss_acc THEN st
    ELSE [st EXCEPT
            !.d = [@ EXCEPT !.csv = @ \o <<CsvHeader, CsvRow(st.w)>>,
                            !.ctime = IF st.d.csv = <<>> THEN <<t, st.j + 1>> ELSE @],
            !.j = IF st.d.csv = <<>> THEN @ + 1 ELSE @,
            !.hist = 1,
            !.attrs = @ \cup {"saved_loss_acc_vectors"}]

\* Cvnn.save_loss_and_acc in the train call of time t, on the loop state st
SaveLossAndAcc(r, st, t) ==
    IF ~r.save_loss_acc THEN st
    ELSE LET write == st.d.csv = <<>>
         IN [st EXCEPT
               !.d = [@ EXCEPT !.csv = (IF write THEN <<CsvHeader>> ELSE @)
                                          \o <<CsvRow(st.w)>>,
                               !.ctime = IF write THEN <<t, st.j + 1>> ELSE @],
               !.j = IF write THEN @ + 1 ELSE @,
               \* line 571 raises before anything is appended when the
               \* instance has no saved_loss_acc_vectors
               !.hist = IF write THEN 1
                        ELSE IF "saved_loss_acc_vectors" \in st.attrs THEN @ + 1
                        ELSE @,
               !.attrs = IF write THEN @ \cup {"saved_loss_acc_vectors"} ELSE @,
               !.outcome = IF ~write /\ "saved_loss_acc_vectors" \notin st.attrs
                           THEN "raise" ELSE @]

\* a display test on the cumulative step epoch * num_tr_iter + iteration
CheckpointDueCumulative(epoch, iteration, p) ==
    (epoch * p.num_tr_iter + iteration) % p.display_freq = 0

\* the test of line 223 that guards run_checkpoint
CheckpointDue(epoch, iteration, p) ==
    (epoch * p.batch_size + iteration) % p.display_freq = 0

\* a batch count that rounds up, keeping the trailing partial batch
NumTrIterCeil(n, batch_size) == (n + batch_size - 1) \div batch_size

\* num_tr_iter = int(len(y_train) / batch_size)
NumTrIter(n, batch_size) == n \div batch_size

\* an entry of the trace of a train call: the operation, the cumulative step
\* (the epoch for a metrics row) and the parameters it saw
Event(e, k, w) == [e |-> e, k |-> k, w |-> w]

\* a training loop that runs the update of a batch before its checkpoint
RECURSIVE TrainLoopUpdateFirst(_, _, _, _, _, _, _)
TrainLoopUpdateFirst(r, st, k, epochs, num_tr_iter, p, t) ==
    IF k >= epochs * num_tr_iter THEN st
    ELSE CHOOSE res \in {
         IF s0.outcome # "ok" THEN s0
         ELSE
         LET epoch == k \div num_tr_iter
             iteration == k % num_tr_iter
             due == CheckpointDue(epoch, iteration, p)
             start == iteration * p.batch_size
             end == (iteration + 1) * p.batch_size
             s1 == [s0 EXCEPT !.w = @ + 1, !.updates = @ + 1,
                              !.batches = Append(@, <<epoch, start, end>>),
                              !.events = Append(@, Event("update", k, s0.w))]
             s2 == IF due
                   THEN [s1 EXCEPT !.d = SaveModel(s1.d, s1.kept, r, s1.w,
                                                   ToString(epoch),
                                                   ToString(iteration),
                                                   LossValue(s1.w), <<t, s1.j + 1>>).d,
                                   !.kept = SaveModel(s1.d, s1.kept, r, s1.w,
                                                   ToString(epoch),
                                                   ToString(iteration),
                                                   LossValue(s1.w), <<t, s1.j + 1>>).kept,
                                   !.j = @ + 1,
                                   !.saved = Append(@, k),
                                   !.events = Append(@, Event("checkpoint", k, s1.w))]
                   ELSE s1
             s3 == IF iteration = num_tr_iter - 1
                   THEN [SaveLossAndAcc(r, s2, t) EXCEPT
                            !.events = IF r.save_loss_acc
                                       THEN Append(@, Event("row", epoch, s2.w)) ELSE @]
                   ELSE s2
         IN TrainLoopUpdateFirst(r, s3, k + 1, epochs, num_tr_iter, p, t)
         : s0 \in {st} } : TRUE

\* the two nested for loops of train, from cumulative step k on; s0 is the
\* loop state st the iteration of step k starts from, and an exception of an
\* earlier iteration ends the loop
RECURSIVE TrainLoop(_, _, _, _, _, _, _)
TrainLoop(r, st, k, epochs, num_tr_iter, p, t) ==
    IF k >= epochs * num_tr_iter THEN st
    ELSE CHOOSE res \in {
         IF s0.outcome # "ok" THEN s0
         ELSE
         LET epoch == k \div num_tr_iter
             iteration == k % num_tr_iter
             due == CheckpointDue(epoch, iteration, p)
             \* run_checkpoint: save_model, then the tensorboard summary
             s1 == IF due
                   THEN [s0 EXCEPT !.d = SaveModel(s0.d, s0.kept, r, s0.w,
                                                   ToString(epoch),
                                                   ToString(iteration),
                                                   LossValue(s0.w), <<t, s0.j + 1>>).d,
                                   !.kept = SaveModel(s0.d, s0.kept, r, s0.w,
                                                   ToString(epoch),
                                                   ToString(iteration),
                                                   LossValue(s0.w), <<t, s0.j + 1>>).kept,
                                   !.j = @ + 1,
                                   !.saved = Append(@, k),
                                   !.events = Append(@, Event("checkpoint", k, s0.w))]
                   ELSE s0
             \* the batch x_train[start:end]
             start == iteration * p.batch_size
             end == (iteration + 1) * p.batch_size
             \* sess.run(self.training_op)
             s2 == [s1 EXCEPT !.w = @ + 1, !.updates = @ + 1,
                              !.batches = Append(@, <<epoch, start, end>>),
                              !.events = Append(@, Event("update", k, s1.w))]
             \* save_loss_and_acc after the last batch of the epoch
             s3 == IF iteration = num_tr_iter - 1
                   THEN [SaveLossAndAcc(r, s2, t) EXCEPT
                            !.events = IF r.save_loss_acc
                                       THEN Append(@, Event("row", epoch, s2.w)) ELSE @]
                   ELSE s2
         IN TrainLoop(r, s3, k + 1, epochs, num_tr_iter, p, t)
         : s0 \in {st} } : TRUE

\* the state of a train call on run directory d before anything has run
TrainStart(r, d) ==
    [outcome |-> "ok", d |-> d, w |-> r.w, w0 |-> r.w, j |-> 0,
     hist |-> r.hist, attrs |-> r.attrs, kept |-> r.kept, saved |-> <<>>,
     updates |-> 0,
     batches |-> <<>>, final |-> FALSE, looped |-> FALSE, events |-> <<>>,
     fresh |-> FALSE]

\* Cvnn.train after the batch-size check (lines 199-232), as the call of
\* time t on run directory d: the outcome, the directory, the parameters
\* (w0 when the loop starts, w at the end) and what was written
TrainBody(r, d, t, n, epochs, batch_size, display_freq) ==
    LET st0 == TrainStart(r, d)
        iw == InitWeights(r, d)
        num_tr_iter == NumTrIter(n, batch_size)
        p == [batch_size |-> batch_size, display_freq |-> display_freq,
              num_tr_iter |-> num_tr_iter]
        \* _init_weights, then print_validation_loss(x_test, y_test, 0)
        ev0 == <<Event("init_weights", 0, r.w), Event("validation", 0, iw.w)>>
        lp == TrainLoop(r, [st0 EXCEPT !.w = iw.w, !.w0 = iw.w, !.looped = TRUE,
                                       !.events = ev0, !.fresh = iw.fresh],
                        0, epochs, num_tr_iter, p, t)
    IN IF "sess" \notin r.attrs THEN [st0 EXCEPT !.outcome = "raise"]
       ELSE IF iw.outcome # "ok" THEN [st0 EXCEPT !.outcome = iw.outcome]
       ELSE IF ~({"X", "y", "loss", "acc", "training_op", "saver"} \subseteq r.attrs)
       THEN [st0 EXCEPT !.outcome = "raise", !.w = iw.w, !.w0 = iw.w,
                        !.fresh = iw.fresh]
       ELSE CHOOSE res \in {
          IF l.outcome # "ok" THEN l
          ELSE IF epochs = 0
          THEN [l EXCEPT !.outcome = "raise"]     \* epoch + 1 with epoch unbound
          ELSE [l EXCEPT !.d = SaveModel(l.d, l.kept, r, l.w, "final", "valid_loss",
                                         LossValue(l.w), <<t, l.j + 1>>).d,
                         !.kept = SaveModel(l.d, l.kept, r, l.w, "final", "valid_loss",
                                            LossValue(l.w), <<t, l.j + 1>>).kept,
                         !.j = @ + 1, !.final = TRUE,
                         !.events = @ \o <<Event("validation", epochs, l.w),
                                           Event("final", epochs, l.w)>>]
          : l \in {lp} } : TRUE

\* a train without the batch-size check of line 197
TrainOpUnchecked(r, d, t, n, epochs, batch_size, display_freq) ==
    TrainBody(r, d, t, n, epochs, batch_size, display_freq)

\* Cvnn.train(x_train, y_train, x_test, y_test, epochs, batch_size,
\* display_freq) with n training examples
TrainOp(r, d, t, n, epochs, batch_size, display_freq) ==
    IF n < batch_size
    THEN [TrainStart(r, d) EXCEPT !.outcome = "exit"]
    ELSE TrainBody(r, d, t, n, epochs, batch_size, display_freq)

\* Cvnn.save_model(epoch, iteration, loss_batch) called on instance r at
\* time t: self.saver and self.sess are read, and the saver reads the values
\* of the variables
SaveModelOp(r, d, t, epoch, iteration, loss_batch) ==
    IF ~({"saver", "sess"} \subseteq r.attrs) \/ r.w = Uninit
    THEN [outcome |-> "raise", d |-> d, kept |-> r.kept]
    ELSE LET s == SaveModel(d, r.kept, r, r.w, epoch, iteration, loss_batch, <<t, 1>>)
         IN [outcome |-> "ok", d |-> s.d, kept |-> s.kept]

\* Cvnn.run_checkpoint(epoch, num_tr_iter, iteration, feed_dict_batch) called
\* on instance r at time t: the batch loss and accuracy are computed, the
\* model is saved under the batch loss, then _save_to_tensorboard runs
\* self.merged and writes to self.writer when tensorboard is enabled
RunCheckpointOp(r, d, t, epoch, num_tr_iter, iteration) ==
    IF ~({"sess", "loss", "acc"} \subseteq r.attrs) \/ r.w = Uninit
    THEN [outcome |-> "raise", d |-> d, kept |-> r.kept]
    ELSE LET s == SaveModelOp(r, d, t, ToString(epoch), ToString(iteration),
                              LossValue(r.w))
         IN IF s.outcome # "ok" THEN s
            ELSE IF r.tensorboard /\ ~({"merged", "writer"} \subseteq r.attrs)
            THEN [s EXCEPT !.outcome = "raise"]
            ELSE s

\* Cvnn.save_loss_and_acc(feed_dict_train, feed_dict_test) called on instance
\* r at time t: nothing when save_loss_acc is off, otherwise the losses and
\* accuracies are computed (lines 553-556) and the row is written
SaveLossAndAccOp(r, d, t) ==
    IF ~r.save_loss_acc THEN TrainStart(r, d)
    ELSE IF ~({"sess", "loss", "acc"} \subseteq r.attrs) \/ r.w = Uninit
    THEN [TrainStart(r, d) EXCEPT !.outcome = "raise"]
    ELSE SaveLossAndAcc(r, TrainStart(r, d), t)

\* a call that ends in sys.exit or in an uncaught exception ends the process
\* that holds the instance: the object is gone, only how it ended is kept
\* (last.post holds the instance as the call left it)
Gone(status) == [NoInst EXCEPT !.status = status]
Finish(r, outcome) ==
    IF outcome = "ok" THEN r
    ELSE Gone(IF outcome = "exit" THEN "exited" ELSE "raised")

\* ------------------------------------------------------------- evaluation
\* tf.math.argmax(t, 1) on one row: the smallest index of a largest entry
ArgMax(row) ==
    CHOOSE k \in 1..Len(row) :
        /\ \A j \in 1..Len(row) : row[j] <= row[k]
        /\ \A j \in 1..(k - 1) : row[j] < row[k]

\* the largest entry of a row
RowMax(row) == row[ArgMax(row)]

\* the sum of the entries of a sequence
RECURSIVE SumSeq(_)
SumSeq(q) == IF q = <<>> THEN 0 ELSE Head(q) + SumSeq(Tail(q))

\* tf.math.reduce_mean of a vector of 0.0 and 1.0, kept as the fraction
\* <<sum, length>>
ReduceMean(q) == <<SumSeq(q), Len(q)>>

\* an accuracy that compares the largest scores instead of their indices
AccOpMaxValue(y_out, y) ==
    ReduceMean([k \in 1..Len(y_out) |->
                   IF RowMax(y_out[k]) = RowMax(y[k]) THEN 1 ELSE 0])

\* self.acc (lines 348-351) on the batch of outputs y_out and labels y
AccOp(y_out, y) ==
    ReduceMean([k \in 1..Len(y_out) |->
                   IF ArgMax(y_out[k]) = ArgMax(y[k]) THEN 1 ELSE 0])

\* Cvnn.compute_accuracy(x, y), where y_out is the output of the network on x
ComputeAccuracyOp(r, y_out, y) ==
    IF ~({"sess", "X", "y", "acc"} \subseteq r.attrs)
    THEN [outcome |-> "raise", result |-> <<>>]         \* AttributeError
    ELSE IF r.w = Uninit
    \* sess.run(self.acc) reads variables that hold no value yet
    THEN [outcome |-> "raise", result |-> <<>>]
    ELSE [outcome |-> "ok", result |-> AccOp(y_out, y)]

\* ------------------------------------------------------------ update step
\* sess.run(self.training_op) runs the graph below the assign operations of
\* lines 357-362 in any order that respects its data dependencies. For a
\* graph of one dense layer (variables 1: weights, 2: bias) the nodes are
\* <<"fwd", j>>: the read of variable j that feeds the forward pass, hence the
\* loss and every gradient; <<"own", i>>: the read of variable i in
\* var - learning_rate * gradients[i]; <<"assign", i>>: the assign of
\* variable i.
StepVars == {1, 2}
StepNodes == {"fwd", "own", "assign"} \X StepVars

\* the nodes whose outputs node nd consumes: tf.gradients(ys=self.loss, ...)
\* makes every gradient a function of the loss, which consumes the forward
\* read of every variable
Inputs(nd) ==
    IF nd[1] = "assign"
    THEN {<<"own", nd[2]>>} \cup {<<"fwd", j>> : j \in StepVars}
    ELSE {}

\* gradients[i] for the values v the forward pass read: the loss
\* (2 * v[1] + v[2] - 1)^2 / 2 of one example, derived by variable i
Gradient(i, v) ==
    LET err == 2 * v[1] + v[2] - 1
    IN IF i = 1 THEN 2 * err ELSE err

\* a forward read whose tensor shares the buffer of the variable: its value
\* is the one the variable has when the gradient is computed
ForwardValueAliased(run, j) == run.vars[j]

\* the tensor of the forward read of variable j: the value the variable had
\* when the read ran
ForwardValue(run, j) == run.fwd[j]

\* the state of a sess.run(self.training_op) on parameters vals before any
\* node has run
StepStart(vals) == [vars |-> vals, fwd |-> <<0, 0>>, own |-> <<0, 0>>, done |-> {}]

\* the runtime runs node nd (learning rate 1)
RunNode(run, nd) ==
    LET i == nd[2]
        r1 == [run EXCEPT !.done = @ \cup {nd}]
    IN IF nd[1] = "fwd" THEN [r1 EXCEPT !.fwd[i] = run.vars[i]]
       ELSE IF nd[1] = "own" THEN [r1 EXCEPT !.own[i] = run.vars[i]]
       ELSE [r1 EXCEPT !.vars[i] =
                run.own[i] - Gradient(i, [j \in StepVars |-> ForwardValue(run, j)])]

\* -------------------------------------------------------- data processing
\* (src/data_processing.py) An array is the sequence of its rows. A ratio is
\* a Python float, an IEEE-754 double: a sign and, for a value other than 0, a
\* significand of Precision bits sig[1..Precision] with sig[1] = 1, whose
\* first bit has the weight 2^-p; the value is the sum of
\* sig[j] * 2^-(p + j - 1).
RatioDen == 8
MaxExamples == 3
Precision == 53

\* the remainder of num * 2^i by den (0 <= num)
RECURSIVE RemAt(_, _, _)
RemAt(num, den, i) ==
    IF i = 0 THEN num % den ELSE (2 * RemAt(num, den, i - 1)) % den

\* the bit of weight 2^-i in the binary expansion of num/den (num < 2 * den)
ExpansionBit(num, den, i) ==
    IF i = 0 THEN num \div den ELSE (2 * RemAt(num, den, i - 1)) \div den

\* the float 0.0
FloatZero == [neg |-> FALSE, p |-> 0, sig |-> SubSeq([j \in 1..Precision |-> 0], 1, Precision)]

\* the position of the leading 1 of the expansion of num/den, 0 < num < 2 * den
LeadingBit(num, den) ==
    CHOOSE i \in 0..den :
       /\ ExpansionBit(num, den, i) = 1
       /\ \A h \in 0..(i - 1) : ExpansionBit(num, den, h) = 0

\* bit j of the expansion counted from its leading bit
RawBit(num, den, j) == ExpansionBit(num, den, LeadingBit(num, den) + j - 1)

\* round to nearest, ties to even: upwards when the first bit dropped is 1
\* and either a later bit is 1 or the last bit kept is 1
RoundsUp(num, den) ==
    /\ RawBit(num, den, Precision + 1) = 1
    /\ \/ RemAt(num, den, LeadingBit(num, den) + Precision) # 0
       \/ RawBit(num, den, Precision) = 1

\* the float nearest to num/den for 0 < num < 2 * den: what the literal of a
\* decimal, or the division num/den of two small integers, evaluates to.
\* Adding one to the last place flips every bit that has only 1s after it;
\* when all bits are 1 the significand becomes 1000...0 one place higher.
NearestFloat(num, den) ==
    [neg |-> FALSE,
     p |-> IF RoundsUp(num, den) /\ \A k \in 1..Precision : RawBit(num, den, k) = 1
           THEN LeadingBit(num, den) - 1 ELSE LeadingBit(num, den),
     sig |-> SubSeq([j \in 1..Precision |->
                       IF j = 1 THEN 1
                       ELSE IF /\ RoundsUp(num, den)
                               /\ \A k \in (j + 1)..Precision : RawBit(num, den, k) = 1
                       THEN 1 - RawBit(num, den, j)
                       ELSE RawBit(num, den, j)], 1, Precision)]

\* the float a caller passes who writes the ratio num/den
Float(num, den) ==
    IF num = 0 THEN FloatZero
    ELSE IF num < 0 THEN [NearestFloat(-num, den) EXCEPT !.neg = TRUE]
    ELSE NearestFloat(num, den)

FloatIsZero(f) == \A j \in 1..Precision : f.sig[j] = 0

\* ratio < 0 and ratio > 1 on floats
FloatBelowZero(f) == f.neg /\ ~FloatIsZero(f)
FloatAboveOne(f) ==
    /\ ~f.neg /\ ~FloatIsZero(f)
    /\ f.p < 0 \/ (f.p = 0 /\ \E j \in 2..Precision : f.sig[j] = 1)

\* the exact product of the integer m and the significand sig, bit by bit:
\* the carry into position j from the positions after it
RECURSIVE CarryAt(_, _, _)
CarryAt(m, sig, j) ==
    IF j = Precision THEN 0
    ELSE (m * sig[j + 1] + CarryAt(m, sig, j + 1)) \div 2

\* the bit of the exact product at position t, of weight 2^-(p + t - 1); the
\* positions below 1 hold the carry out of position 1
ProductBit(m, sig, t) ==
    IF t >= 1 THEN (m * sig[t] + CarryAt(m, sig, t)) % 2
    ELSE (CarryAt(m, sig, 0) \div (2 ^ (-t))) % 2

\* the number of bits of n
RECURSIVE BitLen(_)
BitLen(n) == IF n = 0 THEN 0 ELSE 1 + BitLen(n \div 2)

\* the permutations of 1..m
Perms(m) == {q \in [1..m -> 1..m] : \A a, b \in 1..m : q[a] = q[b] => a = b}

\* randomize(x, y) of utils: both arrays reordered by one permutation
Randomize(x, y, perm) ==
    <<[k \in 1..Len(x) |-> x[perm[k]]], [k \in 1..Len(y) |-> y[perm[k]]]>>

\* int(m*ratio) for a float 0 <= ratio <= 1: m*ratio is the float nearest to
\* the exact product (the first Precision bits of it from its leading bit
\* top on, rounded on the bits after them, ties to even), and int drops the
\* fraction. whole is the integer part of the exact product; the rounding
\* reaches it when it is upwards and every kept bit of the fraction is 1.
TrainCount(m, ratio) ==
    LET sig == ratio.sig
        out == CarryAt(m, sig, 0)
        top == IF out > 0 THEN 1 - BitLen(out)
               ELSE CHOOSE t \in 1..Precision :
                       /\ ProductBit(m, sig, t) = 1
                       /\ \A h \in 1..(t - 1) : ProductBit(m, sig, h) = 0
        end == top + Precision - 1
        guard == end + 1 <= Precision /\ ProductBit(m, sig, end + 1) = 1
        sticky == \E t \in (end + 2)..Precision : ProductBit(m, sig, t) = 1
        up == guard /\ (sticky \/ ProductBit(m, sig, end) = 1)
        unit == 1 - ratio.p
        whole == (2 * out + ProductBit(m, sig, 1)) \div (2 ^ ratio.p)
    IN IF m = 0 \/ FloatIsZero(ratio) THEN 0
       ELSE IF up /\ \A t \in (unit + 1)..end : ProductBit(m, sig, t) = 1
       THEN whole + 1
       ELSE whole

\* separate_into_train_and_test(x, y, ratio, pre_rand), where perm is the
\* permutation randomize draws
SeparateIntoTrainAndTest(x, y, ratio, pre_rand, perm) ==
    IF FloatAboveOne(ratio) \/ FloatBelowZero(ratio)
    THEN [outcome |-> "exit", result |-> <<>>]
    ELSE LET xy == IF pre_rand THEN Randomize(x, y, perm) ELSE <<x, y>>
             m == Len(xy[1])
             k == TrainCount(m, ratio)
         IN [outcome |-> "ok",
             result |-> <<SubSeq(xy[1], 1, k), SubSeq(xy[2], 1, k),
                          SubSeq(xy[1], k + 1, m), SubSeq(xy[2], k + 1, m)>>]

\* a file name is the sequence of its parts, the last one its termination
ArrayNames == {<<"d">>, <<"e">>, <<"d", ".npz">>}

\* np.savez(file, ...): ".npz" is appended to the name unless it ends with it
SavezPath(name) == IF name[Len(name)] = ".npz" THEN name ELSE Append(name, ".npz")

\* the file load_dataset opens: array_name + ".npz"
LoadPath(name) == Append(name, ".npz")

DataPaths == {SavezPath(n) : n \in ArrayNames} \cup {LoadPath(n) : n \in ArrayNames}

\* the directory ../data: whether it exists and the .npz archive at each path
\* (NoFile: none); saved and lastsaved keep, for the claims, the dataset of
\* the latest save_dataset call of each name and the name of the latest call
NoFile == <<>>
NoData == [exists |-> FALSE, files |-> [q \in DataPaths |-> NoFile],
           saved |-> [n \in ArrayNames |-> NoFile], lastsaved |-> <<>>]

\* save_dataset(array_name, x_train, y_train, x_test, y_test) on directory dd
SaveDataset(dd, array_name, x_train, y_train, x_test, y_test) ==
    [dd EXCEPT !.exists = TRUE,
               !.files[SavezPath(array_name)] =
                   [x_train |-> x_train, y_train |-> y_train,
                    x_test |-> x_test, y_test |-> y_test]]

\* load_dataset(array_name) on directory dd
LoadDataset(dd, array_name) ==
    LET npzfile == dd.files[LoadPath(array_name)]
    IN IF ~dd.exists \/ npzfile = NoFile
       THEN [outcome |-> "exit", result |-> <<>>]     \* FileNotFoundError
       ELSE [outcome |-> "ok",
             result |-> <<npzfile.x_train, npzfile.y_train,
                          npzfile.x_test, npzfile.y_test>>]

\* ----------------------------------------------------------------- inputs
Layer(width, a) == [width |-> width, act |-> a]
\* the loss and the shape of the create_mlp_graph call of __main__
MainLoss == StrArg("categorical_crossentropy")
MainShape == << Layer(4, StrArg("ignored")), Layer(3, StrArg("cart_sigmoid")),
                Layer(2, StrArg("cart_softmax_real")) >>
Shapes == { << Layer(4, StrArg("ignored")) >>, MainShape }
LossArgs == {StrArg("categorical_crossentropy"), StrArg("unknown"), OtherArg}
InputDTypes == {"complex64", "float32"}
OutputDTypes == {"complex64", "float32"}
\* OutputOpts(tensorboard, verbose, save_loss_acc) as the constructor is called
OutputOpts == {[tensorboard |-> TRUE, save_loss_acc |-> TRUE],
               [tensorboard |-> FALSE, save_loss_acc |-> FALSE]}
\* len(x_train), epochs, batch_size and display_freq of the train calls
TrainSizes == {2}
EpochChoices == {0, 1}
BatchSizes == {2, 3}
DisplayFreqs == {1}

Init ==
    /\ second = 0
    /\ clock = 0
    /\ fs = [k \in RunKeys |-> NoDir]
    /\ inst = [i \in Insts |-> NoInst]
    /\ last = NoCall
    /\ data = NoData

\* Cvnn.__init__(name, automatic_restore, tensorboard, save_loss_acc) at a
\* moment when datetime.today() is in second now
Construct(i, name, now, auto, tb, sla) ==
    /\ inst[i].status = "none"
    /\ \A j \in Insts : j < i => inst[j].status # "none"
    /\ clock + 1 <= MaxClock
    /\ now \in {second, second + 1}
    /\ (i = 1) => (now = second)
    /\ LET key == <<name, now>>
           r0 == [NoInst EXCEPT !.status = "live", !.name = name, !.now = now,
                                !.automatic_restore = auto, !.tensorboard = tb,
                                !.save_loss_acc = sla]
           f1 == [fs EXCEPT ![key] = MakeDirs(fs[key], <<clock + 1, 0>>)]
           res == IF auto THEN RestoreGraphFromMeta(f1, r0, NoSel)
                  ELSE [outcome |-> "ok", r |-> r0, sel |-> NoSel]
           r1 == [res.r EXCEPT !.attrs = @ \cup {"metadata_filename"}]
           sum == SaveObjectSummary(f1[key], r1, <<clock + 1, 1>>)
           call == [NoCall EXCEPT !.op = "init", !.i = i, !.predir = fs[key],
                                  !.sel = res.sel]
       IN IF res.outcome # "ok"
          THEN /\ inst' = [inst EXCEPT ![i] = Finish(res.r, res.outcome)]
               /\ fs' = f1
               /\ last' = [call EXCEPT !.outcome = res.outcome, !.post = res.r]
          ELSE /\ inst' = [inst EXCEPT ![i] = Finish(r1, sum.outcome)]
               /\ fs' = [f1 EXCEPT ![key] = sum.d]
               /\ last' = [call EXCEPT !.outcome = sum.outcome, !.post = r1]
    /\ clock' = clock + 1
    /\ second' = now
    /\ UNCHANGED data

\* Cvnn.create_mlp_graph(loss_func, shape, input_dtype, output_dtype)
CreateMlpGraph(i, loss_func, shape, input_dtype, output_dtype) ==
    /\ inst[i].status = "live"
    /\ inst[i].opened < MaxBuilds
    /\ LET key == RunOf(inst[i])
           res == CreateMlpGraphOp(inst[i], fs[key].meta, loss_func, shape,
                                   input_dtype, output_dtype)
       IN /\ inst' = [inst EXCEPT ![i] = Finish(res.r, res.outcome)]
          /\ fs' = [fs EXCEPT ![key].meta = res.meta]
          /\ last' = [NoCall EXCEPT !.op = "create_mlp_graph", !.i = i,
                                    !.outcome = res.outcome, !.pre = inst[i],
                                    !.post = res.r, !.predir = fs[key],
                                    !.args = <<input_dtype, output_dtype>>,
                                    !.shape = shape, !.loss_func = loss_func]
    /\ UNCHANGED <<second, clock, data>>

\* Cvnn.create_linear_regression_graph(input_size, output_size, input_dtype,
\* output_dtype)
CreateLinearRegressionGraph(i, input_size, output_size, input_dtype, output_dtype) ==
    /\ inst[i].status = "live"
    /\ inst[i].opened < MaxBuilds
    /\ LET key == RunOf(inst[i])
           shape == <<Layer(input_size, ActLinear), Layer(output_size, ActLinear)>>
           res == CreateMlpGraphOp(inst[i], fs[key].meta, LossMeanSquare, shape,
                                   input_dtype, output_dtype)
       IN /\ inst' = [inst EXCEPT ![i] = Finish(res.r, res.outcome)]
          /\ fs' = [fs EXCEPT ![key].meta = res.meta]
          /\ last' = [NoCall EXCEPT !.op = "create_linear_regression_graph", !.i = i,
                                    !.outcome = res.outcome, !.pre = inst[i],
                                    !.post = res.r, !.predir = fs[key],
                                    !.args = <<input_dtype, output_dtype>>,
                                    !.shape = shape, !.loss_func = LossMeanSquare]
    /\ UNCHANGED <<second, clock, data>>

\* Cvnn.restore_graph_from_meta(latest_file) called on a constructed instance
\* (explored once per instance: on instances not restored yet)
RestoreCall(i, given) ==
    /\ inst[i].status = "live"
    /\ ~inst[i].restored_meta
    /\ LET key == RunOf(inst[i])
           res == RestoreGraphFromMeta(fs, inst[i], given)
       IN /\ inst' = [inst EXCEPT ![i] = Finish(res.r, res.outcome)]
          /\ last' = [NoCall EXCEPT !.op = "restore_graph_from_meta", !.i = i,
                                    !.outcome = res.outcome, !.pre = inst[i],
                                    !.post = res.r, !.predir = fs[key],
                                    !.sel = res.sel, !.given = given.found]
    /\ UNCHANGED <<second, clock, fs, data>>

\* Cvnn.train(...) with n training examples
Train(i, n, epochs, batch_size, display_freq) ==
    /\ inst[i].status = "live"
    /\ clock + 1 <= MaxClock
    /\ \E res \in {TrainOp(inst[i], fs[RunOf(inst[i])], clock + 1, n, epochs,
                            batch_size, display_freq)} :
       LET key == RunOf(inst[i])
           r1 == [inst[i] EXCEPT !.w = res.w, !.hist = res.hist, !.attrs = res.attrs,
                                 !.kept = res.kept, !.trains = @ + 1]
       IN /\ inst' = [inst EXCEPT ![i] = Finish(r1, res.outcome)]
          /\ fs' = [fs EXCEPT ![key] = res.d]
          /\ clock' = clock + 1
          /\ last' = [NoCall EXCEPT !.op = "train", !.i = i,
                                    !.outcome = res.outcome, !.pre = inst[i],
                                    !.post = r1, !.predir = fs[key],
                                    !.args = <<n, batch_size, epochs, display_freq>>,
                                    !.w0 = res.w0, !.saved = res.saved,
                                    !.batches = res.batches,
                                    !.looped = res.looped,
                                    !.events = res.events,
                                    !.fresh = res.fresh]
    /\ UNCHANGED <<second, data>>

\* Cvnn.__del__: the writer and the session are closed when they exist
Del(i) ==
    /\ inst[i].status = "live"
    /\ inst' = [inst EXCEPT ![i] = Gone("deleted")]
    /\ last' = [NoCall EXCEPT !.op = "del", !.i = i, !.pre = inst[i],
                              !.post = [inst[i] EXCEPT
                                           !.closed = IF "sess" \in inst[i].attrs
                                                      THEN @ + 1 ELSE @]]
    /\ UNCHANGED <<second, clock, fs, data>>

\* Cvnn.save_model(epoch, iteration, loss_batch) called by the user
SaveModelCall(i, epoch, iteration, loss_batch) ==
    /\ inst[i].status = "live"
    /\ clock + 1 <= MaxClock
    /\ LET key == RunOf(inst[i])
           res == SaveModelOp(inst[i], fs[key], clock + 1, epoch, iteration, loss_batch)
           r1 == [inst[i] EXCEPT !.kept = res.kept]
       IN /\ inst' = [inst EXCEPT ![i] = Finish(r1, res.outcome)]
          /\ fs' = [fs EXCEPT ![key] = res.d]
          /\ last' = [NoCall EXCEPT !.op = "save_model", !.i = i,
                                    !.outcome = res.outcome, !.pre = inst[i],
                                    !.post = r1, !.predir = fs[key],
                                    !.args = <<epoch, iteration, loss_batch>>]
    /\ clock' = clock + 1
    /\ UNCHANGED <<second, data>>

\* Cvnn.run_checkpoint(epoch, num_tr_iter, iteration, feed_dict_batch) called
\* by the user
RunCheckpointCall(i, epoch, num_tr_iter, iteration) ==
    /\ inst[i].status = "live"
    /\ clock + 1 <= MaxClock
    /\ LET key == RunOf(inst[i])
           res == RunCheckpointOp(inst[i], fs[key], clock + 1, epoch, num_tr_iter,
                                  iteration)
           r1 == [inst[i] EXCEPT !.kept = res.kept]
       IN /\ inst' = [inst EXCEPT ![i] = Finish(r1, res.outcome)]
          /\ fs' = [fs EXCEPT ![key] = res.d]
          /\ last' = [NoCall EXCEPT !.op = "run_checkpoint", !.i = i,
                                    !.outcome = res.outcome, !.pre = inst[i],
                                    !.post = r1, !.predir = fs[key],
                                    !.args = <<epoch, num_tr_iter, iteration>>]
    /\ clock' = clock + 1
    /\ UNCHANGED <<second, data>>

\* Cvnn.save_loss_and_acc(feed_dict_train, feed_dict_test) called by the user
SaveLossAndAccCall(i) ==
    /\ inst[i].status = "live"
    /\ clock + 1 <= MaxClock
    /\ LET key == RunOf(inst[i])
           res == SaveLossAndAccOp(inst[i], fs[key], clock + 1)
           r1 == [inst[i] EXCEPT !.hist = res.hist, !.attrs = res.attrs]
       IN /\ inst' = [inst EXCEPT ![i] = Finish(r1, res.outcome)]
          /\ fs' = [fs EXCEPT ![key] = res.d]
          /\ last' = [NoCall EXCEPT !.op = "save_loss_and_acc", !.i = i,
                                    !.outcome = res.outcome, !.pre = inst[i],
                                    !.post = r1, !.predir = fs[key]]
    /\ clock' = clock + 1
    /\ UNCHANGED <<second, data>>

\* the metadata file of a live instance is removed from outside between two
\* calls: the situation the os.path.exists test of _append_graph_structure
\* (lines 161-162) is there for
RemoveMetadataFile(i) ==
    /\ inst[i].status = "live"
    /\ clock + 1 <= MaxClock
    /\ fs[RunOf(inst[i])].meta # <<>>
    \* os.remove takes the entry out of the run directory, which changes the
    \* ctime of the directory
    /\ fs' = [fs EXCEPT ![RunOf(inst[i])].meta = <<>>,
                        ![RunOf(inst[i])].ctime = <<clock + 1, 0>>]
    /\ clock' = clock + 1
    /\ last' = [NoCall EXCEPT !.op = "remove_metadata", !.i = i, !.pre = inst[i],
                              !.post = inst[i], !.predir = fs[RunOf(inst[i])]]
    /\ UNCHANGED <<second, inst, data>>

\* Cvnn.compute_accuracy(x, y) on a batch for which the network outputs y_out
ComputeAccuracy(i, y_out, y) ==
    /\ inst[i].status = "live"
    /\ LET res == ComputeAccuracyOp(inst[i], y_out, y)
       IN /\ inst' = [inst EXCEPT ![i] = Finish(inst[i], res.outcome)]
          /\ last' = [NoCall EXCEPT !.op = "compute_accuracy", !.i = i,
                                    !.outcome = res.outcome, !.pre = inst[i],
                                    !.post = inst[i], !.args = <<y_out, y>>,
                                    !.result = res.result]
    /\ UNCHANGED <<second, clock, fs, data>>

\* train line 225: sess.run(self.training_op, ...) starts on parameters vals
BeginStep(vals) ==
    /\ last' = [NoCall EXCEPT !.op = "training_op", !.args = <<vals>>,
                              !.result = StepStart(vals)]
    /\ UNCHANGED <<second, clock, fs, inst, data>>

\* the runtime picks a node of the running step whose inputs are computed
ExecNode(nd) ==
    /\ last.op = "training_op"
    /\ nd \notin last.result.done
    /\ Inputs(nd) \subseteq last.result.done
    /\ last' = [last EXCEPT !.result = RunNode(last.result, nd)]
    /\ UNCHANGED <<second, clock, fs, inst, data>>

\* example k of a dataset and its label
Example(k) == k
Label(k) == 10 + k

\* separate_into_train_and_test on m examples with their labels, at the
\* ratio the caller wrote as the fraction ratio.written
Separate(m, ratio, pre_rand, perm) ==
    /\ LET x == [k \in 1..m |-> Example(k)]
           y == [k \in 1..m |-> Label(k)]
       IN \E res \in {SeparateIntoTrainAndTest(x, y, ratio.value, pre_rand, perm)} :
          last' = [NoCall EXCEPT !.op = "separate_into_train_and_test",
                                 !.outcome = res.outcome,
                                 !.args = <<x, y, ratio.written, pre_rand>>,
                                 !.result = res.result]
    /\ UNCHANGED <<second, clock, fs, inst, data>>

\* save_dataset(array_name, ds[1], ds[2], ds[3], ds[4])
Save(array_name, ds) ==
    /\ data' = [SaveDataset(data, array_name, ds[1], ds[2], ds[3], ds[4]) EXCEPT
                   !.saved[array_name] = ds, !.lastsaved = array_name]
    /\ last' = [NoCall EXCEPT !.op = "save_dataset", !.args = <<array_name, ds>>]
    /\ UNCHANGED <<second, clock, fs, inst>>

\* load_dataset(array_name)
Load(array_name) ==
    /\ LET res == LoadDataset(data, array_name)
       IN last' = [NoCall EXCEPT !.op = "load_dataset", !.outcome = res.outcome,
                                 !.args = <<array_name>>, !.result = res.result]
    /\ UNCHANGED <<second, clock, fs, inst, data>>

\* every checkpoint file of the log tree, as a caller may name one
AllCkpts ==
    UNION {{[found |-> TRUE, run |-> k, ckpt |-> c] : c \in fs[k].ckpts} : k \in RunKeys}

\* One instance, driven through construction, build, restore, train and
\* teardown with arguments of every kind.
Next ==
    \/ \E auto \in BOOLEAN, o \in OutputOpts :
          Construct(1, "a", 0, auto, o.tensorboard, o.save_loss_acc)
    \/ \E l \in LossArgs, sh \in Shapes, di \in InputDTypes, do \in OutputDTypes :
          CreateMlpGraph(1, l, sh, di, do)
    \/ \E di \in InputDTypes, do \in OutputDTypes :
          CreateLinearRegressionGraph(1, 4, 2, di, do)
    \/ \E g \in {NoSel} \cup AllCkpts : RestoreCall(1, g)
    \/ \E n \in TrainSizes, e \in EpochChoices, b \in BatchSizes, f \in DisplayFreqs :
          Train(1, n, e, b, f)
    \/ Del(1)

Spec == Init /\ [][Next]_vars

\* Several instances over one log tree, each driven as the script at the end
\* of the file drives its instance: built with MainLoss and MainShape on the
\* default dtypes once, then trained on two examples in one batch.
NextTree ==
    \/ \E i \in Insts, name \in Names, now \in Seconds, auto \in BOOLEAN,
          sla \in BOOLEAN : Construct(i, name, now, auto, TRUE, sla)
    \/ \E i \in Insts :
          /\ "sess" \notin inst[i].attrs
          /\ CreateMlpGraph(i, MainLoss, MainShape, "complex64", "float32")
    \/ \E i \in Insts : Train(i, 2, 1, 2, 1)

SpecTree == Init /\ [][NextTree]_vars

\* the arguments of the train calls of SpecTrain
WideTrainSizes == {2, 3}
WideEpochs == {0, 1, 2}
WideBatchSizes == {1, 2, 3}
WideDisplayFreqs == {1, 2, 3}

\* One instance, built as the script at the end of the file builds it, and
\* trained up to MaxTrains times with training sets, epochs, batch sizes and
\* display frequencies of every kind.
NextTrain ==
    \/ \E auto \in BOOLEAN, o \in OutputOpts :
          Construct(1, "a", 0, auto, o.tensorboard, o.save_loss_acc)
    \/ /\ "sess" \notin inst[1].attrs
       /\ CreateMlpGraph(1, MainLoss, MainShape, "complex64", "float32")
    \/ /\ inst[1].trains < MaxTrains
       /\ \E n \in WideTrainSizes, e \in WideEpochs, b \in WideBatchSizes,
             f \in WideDisplayFreqs : Train(1, n, e, b, f)

SpecTrain == Init /\ [][NextTrain]_vars

\* One instance, built as the script at the end of the file builds it, on
\* which the user calls train and, on their own, the checkpoint and metrics
\* methods train uses.
NextCalls ==
    \/ \E auto \in BOOLEAN, o \in OutputOpts :
          Construct(1, "a", 0, auto, o.tensorboard, o.save_loss_acc)
    \/ /\ "sess" \notin inst[1].attrs
       /\ CreateMlpGraph(1, MainLoss, MainShape, "complex64", "float32")
    \/ /\ inst[1].trains < MaxTrains
       /\ \E e \in WideEpochs, b \in {1, 2} : Train(1, 2, e, b, 1)
    \/ SaveModelCall(1, "7", "3", 1)
    \/ RunCheckpointCall(1, 0, 1, 0)
    \/ SaveLossAndAccCall(1)

SpecCalls == Init /\ [][NextCalls]_vars

\* the arguments of the build calls of SpecBuild
WideShapes ==
    { << Layer(4, StrArg("ignored")) >>,
      MainShape,
      << Layer(4, StrArg("ignored")), Layer(2, StrArg("cart_sigmoid")) >>,
      << Layer(4, StrArg("linear")), Layer(3, StrArg("unknown")),
         Layer(2, StrArg("cart_sigmoid")) >>,
      << Layer(4, StrArg("ignored")), Layer(3, StrArg("cart_softmax_real")),
         Layer(2, StrArg("cart_sigmoid")) >>,
      << Layer(4, ActLinear), Layer(2, StrArg("cart_sigmoid")) >>,
      << Layer(4, Callable("activation_functions", "linear")),
         Layer(2, Callable("tensorflow.python.keras.activations", "relu")) >>,
      << Layer(4, StrArg("ignored")), Layer(2, OtherArg) >> }
WideLossArgs ==
    { StrArg("categorical_crossentropy"), StrArg("mean_square"), StrArg("unknown"),
      LossMeanSquare, Callable("losses", "mean_square"),
      Callable("tensorflow.python.keras.losses", "mean_squared_error"), OtherArg }
WideInputDTypes == {"complex64", "float32", "float64"}

\* One instance and its first build, with shapes, activations, losses and
\* dtypes of every kind, then trained as the script trains it.
NextBuild ==
    \/ \E auto \in BOOLEAN, o \in OutputOpts :
          Construct(1, "a", 0, auto, o.tensorboard, o.save_loss_acc)
    \/ /\ "sess" \notin inst[1].attrs
       /\ \E l \in WideLossArgs, sh \in WideShapes, di \in WideInputDTypes,
             do \in OutputDTypes : CreateMlpGraph(1, l, sh, di, do)
    \/ /\ "sess" \notin inst[1].attrs
       /\ \E di \in WideInputDTypes, do \in OutputDTypes :
             CreateLinearRegressionGraph(1, 4, 2, di, do)
    \/ Train(1, 2, 1, 2, 1)

SpecBuild == Init /\ [][NextBuild]_vars

\* the shapes of the build calls of SpecMeta: two to four entries
MetaShapes ==
    WideShapes \cup
    { << Layer(4, StrArg("ignored")), Layer(3, StrArg("cart_sigmoid")),
         Layer(3, Callable("tensorflow.python.keras.activations", "relu")),
         Layer(2, StrArg("cart_softmax_real")) >> }

\* One instance, its first build and a second build, with a metadata file
\* that may have been removed since the constructor wrote it.
NextMeta ==
    \/ \E auto \in BOOLEAN, o \in OutputOpts :
          Construct(1, "a", 0, auto, o.tensorboard, o.save_loss_acc)
    \/ RemoveMetadataFile(1)
    \/ /\ "sess" \notin inst[1].attrs
       /\ \E l \in LossArgs, sh \in MetaShapes, di \in InputDTypes,
             do \in OutputDTypes : CreateMlpGraph(1, l, sh, di, do)
    \/ /\ "sess" \in inst[1].attrs
       /\ \E sh \in MetaShapes : CreateMlpGraph(1, MainLoss, sh, "complex64", "float32")

SpecMeta == Init /\ [][NextMeta]_vars

\* the ratios of the calls of SpecSplit as the caller writes them: the
\* multiples of 1/RatioDen from below 0 to above 1, the default 0.8, and
\* 1/3, 0.7, 0.57 and 0.29
WrittenRatios ==
    {<<k, RatioDen>> : k \in -1..(RatioDen + 1)}
        \cup {<<8, 10>>, <<1, 3>>, <<7, 10>>, <<57, 100>>, <<29, 100>>}
Ratios == {[written |-> q, value |-> Float(q[1], q[2])] : q \in WrittenRatios}
\* the sizes of the larger datasets; Reversed stands for the one shuffle
\* tried on them (a call that does not shuffle makes no use of it)
LargeSizes == {10, 100}
Reversed(m) == [k \in 1..m |-> m + 1 - k]
\* the arguments of the calls of SpecData
Datasets ==
    { << <<1, 2>>, <<11, 12>>, <<3>>, <<13>> >>,
      << <<3>>, <<13>>, <<1, 2>>, <<11, 12>> >>,
      << <<>>, <<>>, <<>>, <<>> >> }

\* separate_into_train_and_test of data_processing: splits of up to
\* MaxExamples examples at every ratio, shuffled first under every
\* permutation or not shuffled, and splits of the larger datasets, shuffled
\* into the reverse order or not shuffled.
NextSplit ==
    \/ \E m \in 0..MaxExamples, ratio \in Ratios :
          \E perm \in Perms(m) : Separate(m, ratio, TRUE, perm)
    \/ \E m \in 0..MaxExamples, ratio \in Ratios :
          Separate(m, ratio, FALSE, Reversed(m))
    \/ \E m \in LargeSizes, ratio \in Ratios, pre_rand \in BOOLEAN :
          Separate(m, ratio, pre_rand, Reversed(m))

SpecSplit == Init /\ [][NextSplit]_vars

\* save_dataset and load_dataset of data_processing: datasets saved and
\* loaded under every name.
NextData ==
    \/ \E n \in ArrayNames, ds \in Datasets : Save(n, ds)
    \/ \E n \in ArrayNames : Load(n)

SpecData == Init /\ [][NextData]_vars

\* the batches of the compute_accuracy calls of SpecEval: up to MaxBatch rows
\* of two scores each, ties included
MaxBatch == 2
Rows == {<<0, 1>>, <<1, 0>>, <<1, 1>>}
Batches == UNION {[1..n -> Rows] : n \in 1..MaxBatch}

\* One instance, built and trained once as the script builds and trains it,
\* and evaluated on batches of every outcome before and after the training.
NextEval ==
    \/ \E auto \in BOOLEAN : Construct(1, "a", 0, auto, FALSE, FALSE)
    \/ /\ "sess" \notin inst[1].attrs
       /\ CreateMlpGraph(1, MainLoss, MainShape, "complex64", "float32")
    \/ /\ inst[1].trains < 1
       /\ Train(1, 2, 1, 2, 1)
    \/ \E y_out \in Batches, y \in Batches :
          Len(y_out) = Len(y) /\ ComputeAccuracy(1, y_out, y)

SpecEval == Init /\ [][NextEval]_vars

\* the parameter values of the update steps of SpecStep
ParamValues == {<<a, b>> : a \in -1..1, b \in -1..1}

\* One update step of a one-layer graph, its nodes run in every order the
\* data dependencies allow.
NextStep ==
    \/ \E vals \in ParamValues : BeginStep(vals)
    \/ \E nd \in StepNodes : ExecNode(nd)

SpecStep == Init /\ [][NextStep]_vars

\* ----------------------------------------------------------------- claims
\* the arguments of the last train call
TrainN == last.args[1]
TrainBatchSize == last.args[2]
TrainEpochs == last.args[3]
\* the run directory of the instance of the last call, as it is now
LastDir == fs[RunOf(last.post)]
\* the graph tensors and handles a build binds on self
GraphAttrs == {"X", "y", "y_out", "loss", "acc", "training_op", "init", "sess", "saver"}

\* C1: a train call whose batch_size exceeds the number of training examples
\* ends in sys.exit before anything else happens: the parameters are neither
\* initialised nor updated, no attribute changes, and the run directory keeps
\* its checkpoints, its csv file and its metadata as they were.
C1_BatchLargerThanData ==
    (last.op = "train" /\ TrainBatchSize > TrainN)
        => /\ last.outcome = "exit"
           /\ inst[last.i].status = "exited"
           /\ last.post = [last.pre EXCEPT !.trains = @ + 1]
           /\ LastDir = last.predir

\* C1 happens: an oversized batch on a built instance that never trained
C1_Witness ==
    /\ last.op = "train" /\ TrainBatchSize > TrainN
    /\ "sess" \in last.pre.attrs /\ last.pre.w = Uninit
    /\ last.outcome = "exit"

\* C2 as stated: every train call on a built instance, never trained or
\* trained before, created with automatic_restore True or False, with a batch
\* that fits the data and at least one epoch, returns and leaves the instance
\* usable for the next train call.
C2_TrainRepeatable ==
    (/\ last.op = "train"
     /\ GraphAttrs \subseteq last.pre.attrs
     /\ TrainBatchSize <= TrainN /\ TrainEpochs >= 1)
        => last.outcome = "ok" /\ inst[last.i].status = "live"

\* C3 as stated: when the automatic search of restore_graph_from_meta finds a
\* file, the call completes with restored_meta True, a session on the
\* instance, and X, y, loss, y_out and training_op set.
C3_RestoreCompletes ==
    (last.op \in {"init", "restore_graph_from_meta"} /\ ~last.given /\ last.sel.found)
        => /\ last.outcome # "raise"
           /\ last.post.restored_meta
           /\ {"sess", "X", "y", "loss", "y_out", "training_op"} \subseteq last.post.attrs

\* C4: a construction with automatic_restore=True while no other run
\* directory holds a checkpoint finds no file, does not raise, and leaves
\* restored_meta False and the instance without any graph attribute.
C4_NothingToRestore ==
    (/\ last.op = "init" /\ last.post.automatic_restore
     /\ \A k \in RunKeys \ {RunOf(last.post)} : fs[k].ckpts = {})
        => /\ ~last.sel.found
           /\ last.outcome # "raise"
           /\ ~last.post.restored_meta
           /\ last.post.attrs \cap GraphAttrs = {}
           /\ last.post.w = Uninit

\* C4 happens: an earlier run of the same name exists and holds no checkpoint
C4_Witness ==
    /\ last.op = "init" /\ last.post.automatic_restore
    /\ \A k \in RunKeys \ {RunOf(last.post)} : fs[k].ckpts = {}
    /\ \E k \in RunKeys \ {RunOf(last.post)} : k[1] = last.post.name /\ fs[k].exists
    /\ last.outcome = "ok" /\ inst[last.i].status = "live"

\* C5: a construction whose name and second are those of an earlier
\* construction, which wrote its metadata file, ends fatally and leaves that
\* metadata file as it was.
C5_SameSecondCollision ==
    (last.op = "init" /\ last.predir.meta # <<>>)
        => /\ last.outcome \in {"exit", "raise"}
           /\ inst[last.i].status \in {"exited", "raised"}
           /\ LastDir.meta = last.predir.meta

\* C5 happens: the second construction reaches the metadata file and exits,
\* with options that differ from the ones recorded in the file
C5_Witness ==
    /\ last.op = "init" /\ last.predir.meta # <<>>
    /\ last.outcome = "exit"
    /\ MetaHeader(last.post) # last.predir.meta

\* C6 as stated: on an instance with restored_meta True, a call of
\* create_mlp_graph or create_linear_regression_graph returns without effect
\* for every combination of arguments.
C6_RestoredBuildIsNoOp ==
    (/\ last.op \in {"create_mlp_graph", "create_linear_regression_graph"}
     /\ last.pre.restored_meta)
        => /\ last.outcome = "ok"
           /\ last.post = last.pre
           /\ LastDir = last.predir

\* C6 amended: on an instance with restored_meta True, a call of
\* create_mlp_graph or create_linear_regression_graph leaves the graph
\* attributes and the metadata file unchanged; it returns, except for a real
\* (float32) input dtype with a complex (complex64) output dtype, for which
\* it ends in sys.exit.
C6_RestoredBuildKeepsGraph ==
    (/\ last.op \in {"create_mlp_graph", "create_linear_regression_graph"}
     /\ last.pre.restored_meta)
        => /\ last.outcome = (IF last.args = <<"float32", "complex64">>
                              THEN "exit" ELSE "ok")
           /\ last.post = last.pre
           /\ LastDir = last.predir

\* C6 happens: a build call with a loss the library does not know returns on
\* a restored instance
C6_Witness ==
    /\ last.op = "create_mlp_graph" /\ last.pre.restored_meta
    /\ last.args = <<"complex64", "float32">>
    /\ last.outcome = "ok"

\* C6, the excepted case happens
C6_WitnessExit ==
    /\ last.op \in {"create_mlp_graph", "create_linear_regression_graph"}
    /\ last.pre.restored_meta
    /\ last.args = <<"float32", "complex64">>

\* C7: train on an instance with restored_meta True skips the initialisation
\* of the parameters: its first batch starts from the restored values.
C7_RestoredSkipsInit ==
    (/\ last.op = "train" /\ last.pre.restored_meta
     /\ TrainBatchSize <= TrainN)
        => /\ last.w0 = last.pre.w
           /\ last.pre.w # Uninit
           /\ last.outcome = "ok" => last.post.w >= last.pre.w

\* C7 happens: the restored parameters have been trained, and train goes on
\* from them
C7_Witness ==
    /\ last.op = "train" /\ last.pre.restored_meta
    /\ last.pre.w > 0 /\ last.outcome = "ok" /\ last.post.w > last.pre.w

\* C8 as stated: train on an instance that is not restored and was created
\* with automatic_restore=True starts from the newest checkpoint of the run's
\* own saved_models/ when there is one, and from the initialisers when there
\* is none.
C8_InitWeightsLoadsNewest ==
    (/\ last.op = "train" /\ ~last.pre.restored_meta /\ last.pre.automatic_restore
     /\ GraphAttrs \subseteq last.pre.attrs
     /\ TrainBatchSize <= TrainN)
        => IF last.predir.ckpts # {}
           THEN /\ last.w0 = NewestFile(last.predir.ckpts).w
                /\ last.outcome # "raise" \/ TrainEpochs = 0
           ELSE last.w0 = 0

\* C9 as stated: the file the automatic search selects is the newest
\* checkpoint among all the prior runs it searches.
C9_SelectsNewestOfAll ==
    (last.op = "init" /\ last.sel.found)
        => \A k \in ListOfFolders(fs, last.post.name) \ {RunOf(last.post)} :
              \A c \in fs[k].ckpts : NotLater(c.ctime, last.sel.ckpt.ctime)

\* C10 as stated: the automatic search covers the prior runs of every name:
\* when the newest checkpoint of the log tree lies in a prior run of another
\* name, that checkpoint is the one selected.
C10_SearchCoversAllNames ==
    (/\ last.op = "init" /\ last.post.automatic_restore
     /\ \E k \in RunKeys \ {RunOf(last.post)} :
           /\ k[1] # last.post.name
           /\ \E c \in fs[k].ckpts :
                 \A j \in RunKeys : \A e \in fs[j].ckpts : NotLater(e.ctime, c.ctime))
        => last.sel.found /\ last.sel.run[1] # last.post.name

\* C10 amended: the automatic search covers only the runs under
\* log/<name>/ of the instance's own name: a file it selects belongs to a
\* run of that name, whatever the runs of other names hold.
C10_SearchCoversOwnNameOnly ==
    (last.op = "init" /\ last.sel.found)
        => /\ last.sel.run[1] = last.post.name
           /\ last.sel.run \in ListOfFolders(fs, last.post.name)

\* C10 happens: a file is selected while a run of another name holds a newer
\* checkpoint
C10_Witness ==
    /\ last.op = "init" /\ last.sel.found
    /\ \E k \in RunKeys : /\ k[1] # last.post.name
                          /\ \E c \in fs[k].ckpts :
                                ~NotLater(c.ctime, last.sel.ckpt.ctime)

TrainDisplayFreq == last.args[4]
\* the batches per epoch and the cumulative steps of the last train call
TrainBatchCount == TrainN \div TrainBatchSize
TrainSteps == 0..(TrainEpochs * TrainBatchCount - 1)
\* a checkpoint was saved for the batch of cumulative step k
SavedAt(k) == \E j \in 1..Len(last.saved) : last.saved[j] = k
\* the data rows of a metrics log
DataRows(csv) == IF csv = <<>> THEN <<>> ELSE Tail(csv)

\* C11 as stated: in a train call a checkpoint is saved for the batch at
\* (epoch, iteration) exactly when the cumulative step
\* epoch * (batches per epoch) + iteration is a multiple of display_freq.
C11_CheckpointOnCumulativeStep ==
    (last.op = "train" /\ last.looped)
        => \A k \in TrainSteps : SavedAt(k) <=> (k % TrainDisplayFreq = 0)

\* C11 amended: in a train call a checkpoint is saved for the batch at
\* (epoch, iteration) exactly when epoch * batch_size + iteration is a
\* multiple of display_freq.
C11_CheckpointOnBatchSizeStep ==
    (last.op = "train" /\ last.looped)
        => \A k \in TrainSteps :
              SavedAt(k) <=> (((k \div TrainBatchCount) * TrainBatchSize
                                  + (k % TrainBatchCount)) % TrainDisplayFreq = 0)

\* C11 happens: a batch whose cumulative step is a multiple of display_freq
\* gets no checkpoint, and one whose cumulative step is not gets one
C11_Witness ==
    /\ last.op = "train" /\ last.looped /\ last.outcome = "ok"
    /\ \E k \in TrainSteps : k % TrainDisplayFreq = 0 /\ ~SavedAt(k)
    /\ \E k \in TrainSteps : k % TrainDisplayFreq # 0 /\ SavedAt(k)

\* C12: a train call over n examples with batch size b <= n and E epochs that
\* gets as far as its epoch loop runs the update operations once per batch,
\* E * floor(n / b) times in all; each batch is a slice of b examples, the
\* slices of one epoch are disjoint, and the trailing n mod b examples of an
\* epoch are in no slice.
C12_UpdatesPerBatch ==
    (last.op = "train" /\ last.looped)
        => /\ Len(last.batches) = TrainEpochs * (TrainN \div TrainBatchSize)
           /\ last.post.w = last.w0 + TrainEpochs * (TrainN \div TrainBatchSize)
           /\ \A j \in 1..Len(last.batches) :
                 LET b == last.batches[j]
                 IN /\ b[1] \in 0..(TrainEpochs - 1)
                    /\ 0 <= b[2]
                    /\ b[3] - b[2] = TrainBatchSize
                    /\ b[3] <= TrainN - (TrainN % TrainBatchSize)
           /\ \A j, k \in 1..Len(last.batches) :
                 (j # k /\ last.batches[j][1] = last.batches[k][1])
                     => \/ last.batches[j][3] <= last.batches[k][2]
                        \/ last.batches[k][3] <= last.batches[j][2]

\* C12 happens: two epochs over three examples in batches of two, or three
\* examples one by one
C12_Witness ==
    /\ last.op = "train" /\ last.looped /\ last.outcome = "ok"
    /\ TrainEpochs = 2 /\ TrainN = 3
    /\ Len(last.batches) = (IF TrainBatchSize = 2 THEN 2 ELSE 6)
    /\ TrainBatchSize \in {1, 2}

\* the terminal checkpoints the last call wrote
FinalCkptsOfCall == {c \in LastDir.ckpts : c.name[1] = "final" /\ c.ctime[1] = clock}

\* C13 as stated: every train call that passes the batch-size check and gets
\* as far as its epoch loop, for every epochs >= 0, returns after saving
\* exactly one terminal checkpoint, which holds the parameters as the last
\* update left them.
C13_TerminalCheckpoint ==
    (last.op = "train" /\ last.looped)
        => /\ last.outcome = "ok"
           /\ Cardinality(FinalCkptsOfCall) = 1
           /\ \A c \in FinalCkptsOfCall : c.w = last.post.w

\* C14: with save_loss_acc enabled, the metrics log of a live instance is
\* absent with empty history vectors, or starts with the header line, has no
\* other header line, and has as many data rows as the history vectors have
\* entries; a train call that gets as far as its epoch loop appends one row
\* per completed epoch, in epoch order, after the rows already there.
C14_MetricsLog ==
    /\ \A i \in Insts :
          (inst[i].status = "live" /\ inst[i].save_loss_acc)
              => LET csv == fs[RunOf(inst[i])].csv
                 IN IF csv = <<>> THEN inst[i].hist = 0
                    ELSE /\ csv[1] = CsvHeader
                         /\ \A j \in 2..Len(csv) : csv[j] # CsvHeader
                         /\ inst[i].hist = Len(csv) - 1
    /\ (last.op = "train" /\ last.looped /\ last.post.save_loss_acc)
          => LET old == DataRows(last.predir.csv)
                 new == DataRows(LastDir.csv)
             IN /\ Len(new) = Len(old) + TrainEpochs
                /\ last.post.hist = Len(new)
                /\ \A j \in 1..Len(old) : new[j] = old[j]
                /\ \A e \in 1..TrainEpochs :
                      new[Len(old) + e] = CsvRow(last.w0 + e * TrainBatchCount)
                /\ TrainEpochs > 0 => LastDir.csv[1] = CsvHeader

\* C14 happens: a second train call appends two rows to a log that has rows
C14_Witness ==
    /\ last.op = "train" /\ last.looped /\ last.post.save_loss_acc
    /\ last.outcome = "ok" /\ TrainEpochs = 2
    /\ Len(last.predir.csv) >= 2
    /\ inst[last.i].hist = Len(last.predir.csv) + 1

\* the dtype arguments of the last build call
BuildInputDType == last.args[1]
BuildOutputDType == last.args[2]
\* the last call was a create_mlp_graph or create_linear_regression_graph on
\* an instance that had not been restored
BuildCall ==
    /\ last.op \in {"create_mlp_graph", "create_linear_regression_graph"}
    /\ ~last.pre.restored_meta

\* C15: a build of a shape of length L >= 2 that succeeds leaves a graph with
\* L-1 dense layers: layer i has a weight of shape (width of entry i-1) x
\* (width of entry i) and a bias of the width of entry i, there are 2*(L-1)
\* update operations, and the output has the width of the last entry.
C15_GraphLayout ==
    (BuildCall /\ last.outcome = "ok")
        => LET g == last.post.graph
               L == Len(last.shape)
           IN /\ L >= 2
              /\ g.shape = last.shape
              /\ Len(g.variables) = 2 * (L - 1)
              /\ \A i \in 1..(L - 1) :
                    /\ g.variables[2 * i - 1] = <<last.shape[i].width, last.shape[i + 1].width>>
                    /\ g.variables[2 * i] = <<last.shape[i + 1].width>>
              /\ g.training_op = 2 * (L - 1)
              /\ g.y_out_width = last.shape[L].width

\* C15 happens: the three-entry shape of the script is built
C15_Witness ==
    /\ BuildCall /\ last.outcome = "ok"
    /\ last.shape = MainShape
    /\ last.post.graph.variables = << <<4, 3>>, <<3>>, <<3, 2>>, <<2>> >>

\* C16: on an instance that is not restored, create_mlp_graph with a shape of
\* fewer than two entries ends in sys.exit and leaves the instance (its
\* parameters, its attributes, its sessions) and the metadata file as they
\* were.
C16_ShortShapeExits ==
    (BuildCall /\ Len(last.shape) < 2)
        => /\ last.outcome = "exit"
           /\ inst[last.i].status = "exited"
           /\ last.post = last.pre
           /\ LastDir = last.predir

\* C16 happens: a one-entry shape with dtypes that pass the dtype check
C16_Witness ==
    /\ BuildCall /\ Len(last.shape) = 1
    /\ last.args = <<"complex64", "float32">>
    /\ last.predir.meta # <<>>
    /\ last.outcome = "exit"

\* C17: of the four combinations of a real or complex input with a real or
\* complex output, create_mlp_graph rejects exactly the real input with the
\* complex output: that call ends in sys.exit with the instance and the
\* metadata file untouched, the other three go on to build the placeholders.
C17_DTypeCheck ==
    (/\ BuildCall /\ last.op = "create_mlp_graph"
     /\ Len(last.shape) >= 2
     /\ BuildInputDType \in {"complex64", "float32"}
     /\ BuildOutputDType \in {"complex64", "float32"})
        => IF last.args = <<"float32", "complex64">>
           THEN /\ last.outcome = "exit"
                /\ last.post = last.pre
                /\ LastDir = last.predir
           ELSE {"X", "y"} \subseteq last.post.attrs

\* C17 happens: the rejected combination, with a shape and a loss that a
\* complex input builds
C17_Witness ==
    /\ BuildCall /\ last.op = "create_mlp_graph"
    /\ last.shape = MainShape /\ last.loss_func = MainLoss
    /\ last.args = <<"float32", "complex64">>
    /\ last.outcome = "exit"

\* C18: a graph built with a real output dtype exposes a real y_out: the
\* modulus of the tensor the last activation returns when that tensor is
\* complex, the tensor itself when it is real.
C18_RealOutput ==
    (BuildCall /\ last.outcome = "ok" /\ BuildOutputDType = "float32")
        => LET g == last.post.graph
           IN /\ g.out_dtype \in {"complex64", "float32"}
              /\ g.y_out_dtype = "float32"
              /\ g.y_out_width = last.shape[Len(last.shape)].width

\* C18 happens: a complex input with cart_sigmoid as the last activation
C18_Witness ==
    /\ BuildCall /\ last.outcome = "ok" /\ BuildOutputDType = "float32"
    /\ last.post.graph.out_dtype = "complex64"
    /\ last.post.graph.y_out_dtype = "float32"

\* C18 happens: cart_softmax_real as the last activation
C18_WitnessReal ==
    /\ BuildCall /\ last.outcome = "ok" /\ BuildOutputDType = "float32"
    /\ BuildInputDType = "complex64"
    /\ last.post.graph.out_dtype = "float32"

\* an activation argument that is a string and no key of act_dispatcher
UnknownName(a) == a.kind = "str" /\ a.name \notin ActNames
\* the shape of the last build with linear in place of every unknown name
LinearForUnknown ==
    [i \in 1..Len(last.shape) |->
        IF UnknownName(last.shape[i].act)
        THEN [last.shape[i] EXCEPT !.act = StrArg("linear")]
        ELSE last.shape[i]]

\* C19: an activation given as a string that is no key of the activation
\* table never ends the build: the layer passes its tensor on unchanged, so
\* the build ends as it does with linear in that place, with the same
\* variables and the same output.
C19_UnknownActivationIsIdentity ==
    (/\ BuildCall /\ last.op = "create_mlp_graph"
     /\ \E i \in 1..Len(last.shape) : UnknownName(last.shape[i].act))
        => LET res == CreateMlpGraphOp(last.pre, last.predir.meta, last.loss_func,
                                       LinearForUnknown, BuildInputDType,
                                       BuildOutputDType)
           IN /\ last.outcome = res.outcome
              /\ last.post.attrs = res.r.attrs
              /\ last.post.graph.variables = res.r.graph.variables
              /\ last.post.graph.y_out_dtype = res.r.graph.y_out_dtype
              /\ (/\ last.shape = MainShape /\ last.loss_func = MainLoss
                  /\ last.args = <<"complex64", "float32">>
                  /\ last.predir.meta # <<>>) => last.outcome = "ok"

\* C19 happens: an unknown name on a hidden layer, and the build goes on to
\* the output layer
C19_Witness ==
    /\ BuildCall /\ last.op = "create_mlp_graph" /\ last.outcome = "ok"
    /\ Len(last.shape) = 3 /\ UnknownName(last.shape[2].act)
    /\ Len(last.post.graph.variables) = 4

\* C20 as stated: a callable activation or loss is accepted exactly when its
\* declaring module is in the allow-list, and the framework's own callables
\* as this file imports them are accepted: create_linear_regression_graph on
\* an instance that is not restored, with dtypes that pass the dtype check
\* and are supported, builds a graph of one dense layer.
C20_OwnCallablesAccepted ==
    /\ (/\ BuildCall /\ last.op = "create_mlp_graph"
        /\ \E i \in 1..Len(last.shape) :
              /\ last.shape[i].act.kind = "callable"
              /\ last.shape[i].act.module \notin ActModules)
          => last.outcome = "exit"
    /\ (/\ BuildCall /\ last.op = "create_linear_regression_graph"
        /\ BuildInputDType \in {"complex64", "float32"}
        /\ last.args # <<"float32", "complex64">>
        /\ last.predir.meta # <<>>)
          => /\ last.outcome = "ok"
             /\ Len(last.post.graph.variables) = 2
\* a loss argument _apply_loss has no objective for: a string that is not a
\* key of the loss table, or a value that is neither a string nor a callable
BadLoss(l) == (l.kind = "str" /\ l.name \notin LossNames) \/ l.kind = "other"

\* the attributes and counters a completed build would have changed
BuildEffects(r) == <<r.attrs \cap ({"loss"} \cup BuiltAttrs(TRUE)), r.graph, r.opened>>

\* C21 as stated: every create_mlp_graph call with a loss argument that is an
\* unknown string, or neither a string nor a callable, ends the process, with
\* no session acquired and no update operation defined.
C21_UnknownLossAlwaysExits ==
    (last.op = "create_mlp_graph" /\ BadLoss(last.loss_func))
        => /\ last.outcome # "ok"
           /\ BuildEffects(last.post) = BuildEffects(last.pre)

\* C21 amended: on an instance whose graph was not restored, a
\* create_mlp_graph call with a loss argument that is an unknown string, or
\* neither a string nor a callable, ends the process (in sys.exit of
\* _apply_loss when the layers were built and logged); no loss, session,
\* saver or update operation is bound and no session is opened. On a restored
\* instance the call never looks at the loss: with a float32 input dtype and
\* a complex64 output dtype it ends the process at the dtype check, with
\* every other dtype pair it returns; in both cases it binds and opens
\* nothing.
C21_UnknownLossExits ==
    /\ (/\ last.op = "create_mlp_graph" /\ BadLoss(last.loss_func)
        /\ ~last.pre.restored_meta)
           => /\ last.outcome # "ok"
              /\ (LastDir.meta # last.predir.meta => last.outcome = "exit")
              /\ BuildEffects(last.post) = BuildEffects(last.pre)
    /\ (/\ last.op = "create_mlp_graph" /\ BadLoss(last.loss_func)
        /\ last.pre.restored_meta)
           => /\ last.outcome = (IF last.args = <<"float32", "complex64">>
                                 THEN "exit" ELSE "ok")
              /\ BuildEffects(last.post) = BuildEffects(last.pre)
              /\ LastDir.meta = last.predir.meta

\* C21 happens: a build with a valid shape and an unknown loss name got as far
\* as the loss and ended there
C21_Witness ==
    /\ last.op = "create_mlp_graph" /\ ~last.pre.restored_meta
    /\ last.loss_func = StrArg("unknown") /\ last.shape = MainShape
    /\ LastDir.meta # last.predir.meta
    /\ last.outcome = "exit"

\* C21 happens for a loss that is neither a string nor a callable
C21_WitnessOther ==
    /\ last.op = "create_mlp_graph" /\ ~last.pre.restored_meta
    /\ last.loss_func = OtherArg /\ last.shape = MainShape
    /\ LastDir.meta # last.predir.meta
    /\ last.outcome = "exit"

\* the lines a call added at the end of the metadata file
AddedLines ==
    SubSeq(FileLines(LastDir.meta), Len(FileLines(last.predir.meta)) + 1,
           Len(FileLines(LastDir.meta)))

\* the file ended with a newline before the call
EndedWithNewline ==
    last.predir.meta # <<>> /\ last.predir.meta[Len(last.predir.meta)] = <<>>

\* the role _append_graph_structure gives entry i of a shape of length n
LayerRole(i, n) ==
    IF i = 1 THEN "input layer" ELSE IF i = n THEN "output layer" ELSE "hidden layer"

\* C22: a build that succeeds on a shape of length L leaves the earlier lines
\* of the metadata file as they were and appends exactly L layer lines in
\* shape order: the first with role 'input layer', the last 'output layer',
\* the ones between 'hidden layer', each ending with the width and the
\* activation name of its entry. The build adds nothing else, but one empty
\* line before the layer lines when the file ended with a newline, which is
\* the case from the second append on. A build that finds no metadata file
\* ends the process and creates none.
C22_LayerLines ==
    /\ (last.op = "create_mlp_graph" /\ ~last.pre.restored_meta
        /\ last.outcome = "ok")
           => LET L == Len(last.shape)
                  gap == IF EndedWithNewline THEN 1 ELSE 0
              IN /\ Len(AddedLines) = gap + L
                 /\ SubSeq(FileLines(LastDir.meta), 1, Len(FileLines(last.predir.meta)))
                       = FileLines(last.predir.meta)
                 /\ gap = 1 => AddedLines[1] = <<>>
                 /\ LastDir.meta[Len(LastDir.meta)] = <<>>
                 /\ \A k \in 1..L :
                       LET line == AddedLines[gap + k]
                       IN /\ line[1] = LayerRole(k, L)
                          /\ line[Len(line) - 1] = ToString(last.shape[k].width)
                          /\ line[Len(line)] = last.shape[k].act.name
    /\ (last.op = "create_mlp_graph" /\ ~last.pre.restored_meta
        /\ last.predir.meta = <<>>)
           => /\ last.outcome # "ok"
              /\ LastDir.meta = <<>>

\* C22 happens: a first build of four entries, two of them hidden, succeeded
\* on the header the constructor wrote
C22_Witness ==
    /\ last.op = "create_mlp_graph" /\ last.outcome = "ok"
    /\ Len(last.shape) = 4 /\ ~EndedWithNewline
    /\ Len(AddedLines) = 4
    /\ AddedLines[2][1] = "hidden layer" /\ AddedLines[3][1] = "hidden layer"

\* C22 happens: a second build succeeded on a file that a first build had
\* appended to
C22_WitnessSecond ==
    /\ last.op = "create_mlp_graph" /\ last.outcome = "ok"
    /\ last.pre.opened = 1 /\ EndedWithNewline
    /\ AddedLines[1] = <<>> /\ AddedLines[2][1] = "input layer"

\* C22 happens: a build with valid arguments found no metadata file
C22_WitnessMissing ==
    /\ last.op = "create_mlp_graph" /\ last.predir.meta = <<>>
    /\ last.shape = MainShape /\ last.loss_func = MainLoss
    /\ last.args = <<"complex64", "float32">>
    /\ last.outcome = "exit"

\* C23: an instance holds at most one open session at any time, and after
\* its teardown every session it opened has been closed, for any sequence of
\* build calls (rebuilds of a built instance included) followed by teardown.
C23_OneSessionReleased ==
    /\ \A i \in Insts :
          inst[i].status = "live" => inst[i].opened - inst[i].closed <= 1
    /\ last.op = "del" => last.post.closed = last.post.opened

\* the checkpoint files the last call wrote
WrittenCkpts == {c \in LastDir.ckpts : c.ctime[1] = clock}

\* C24: the save_model calls of one instance write pairwise different path
\* names, so none overwrites an earlier checkpoint of the run: a train call
\* replaces no file that was there before it, each of its periodic saves
\* leaves a file of its own, and no loss part of a name contains a '.'.
C24_CheckpointNamesUnique ==
    last.op = "train"
        => /\ \A c \in WrittenCkpts : \A o \in last.predir.ckpts : o.name # c.name
           /\ Cardinality(WrittenCkpts \ FinalCkptsOfCall) = Len(last.saved)
           /\ \A c \in LastDir.ckpts : \A k \in DOMAIN c.name[3] : c.name[3][k] # "."

\* the arguments and the result of the last split
SplitX == last.args[1]
SplitY == last.args[2]
SplitRatio == last.args[3]

\* C25 as stated: separate_into_train_and_test on m >= 0 examples with a
\* ratio r in [0, 1], r the fraction the caller wrote, returns floor(m*r)
\* training and m - floor(m*r) test examples, data
\* and labels of equal length and still paired, and the training part
\* followed by the test part holds every example of the input once; a ratio
\* below 0 or above 1 ends the process.
C25_SplitSizes ==
    last.op = "separate_into_train_and_test"
        => LET m == Len(SplitX)
               r == SplitRatio
               res == last.result
           IN IF r[1] < 0 \/ r[1] > r[2]
              THEN last.outcome = "exit"
              ELSE /\ last.outcome = "ok"
                   /\ \E k \in 0..m :
                         /\ k * r[2] <= m * r[1] /\ m * r[1] < (k + 1) * r[2]
                         /\ Len(res[1]) = k /\ Len(res[2]) = k
                         /\ Len(res[3]) = m - k /\ Len(res[4]) = m - k
                   /\ LET all == res[1] \o res[3]
                          labels == res[2] \o res[4]
                      IN /\ \A e \in 1..m : Cardinality({k \in 1..m : all[k] = Example(e)}) = 1
                         /\ \A k \in 1..m : \E e \in 1..m :
                               all[k] = Example(e) /\ labels[k] = Label(e)
                         /\ ~last.args[4] => (all = SplitX /\ labels = SplitY)

\* C26: load_dataset of a name returns the four arrays the latest
\* save_dataset of that name was given, in the order x_train, y_train,
\* x_test, y_test, when that save was the latest save of all; load_dataset
\* of a name that was never saved ends the process.
C26_RoundTrip ==
    last.op = "load_dataset"
        => LET n == last.args[1]
           IN /\ data.lastsaved = n
                    => (last.outcome = "ok" /\ last.result = data.saved[n])
              /\ data.saved[n] = NoFile => last.outcome = "exit"

\* the examples of the last compute_accuracy batch whose predicted arg-max
\* index is the arg-max index of the label
Matches ==
    {k \in 1..Len(last.args[1]) : ArgMax(last.args[1][k]) = ArgMax(last.args[2][k])}

\* C27: the accuracy of a non-empty batch is the number of examples whose
\* predicted arg-max index equals the arg-max index of the label, divided by
\* the batch size: 1 when every example matches, 0 when none does, always
\* between 0 and 1.
C27_Accuracy ==
    (last.op = "compute_accuracy" /\ last.outcome = "ok")
        => LET n == Len(last.args[1])
               acc == last.result
           IN /\ acc = <<Cardinality(Matches), n>>
              /\ 0 <= acc[1] /\ acc[1] <= acc[2] /\ acc[2] > 0
              /\ Matches = 1..n => acc[1] = acc[2]
              /\ Matches = {} => acc[1] = 0

\* C27 happens: of two examples one matches, the other has equal largest
\* scores at different indices
C27_Witness ==
    /\ last.op = "compute_accuracy" /\ last.outcome = "ok"
    /\ last.pre.w # Uninit
    /\ last.args = << <<<<0, 1>>, <<0, 1>>>>, <<<<0, 1>>, <<1, 0>>>> >>
    /\ last.result = <<1, 2>>

\* C27 happens: every example of a batch matches, one of them by a tie
C27_WitnessAll ==
    /\ last.op = "compute_accuracy" /\ last.outcome = "ok"
    /\ last.pre.w # Uninit
    /\ last.args = << <<<<1, 1>>, <<0, 1>>>>, <<<<1, 0>>, <<0, 1>>>> >>
    /\ last.result = <<2, 2>>

\* the parameters a running update step started from
StepOld == last.args[1]

\* C28: in one update step every parameter goes from its old value to
\* old - lr * gradient(all old values), in whatever order the runtime runs
\* the update operations: an assign that has run has written the value
\* computed from the parameters the step started from, and a parameter whose
\* assign has not run yet still has its old value.
C28_AtomicStep ==
    last.op = "training_op"
        => \A i \in StepVars :
              last.result.vars[i] =
                  IF <<"assign", i>> \in last.result.done
                  THEN StepOld[i] - Gradient(i, StepOld)
                  ELSE StepOld[i]

\* C28 happens: the bias has been assigned a new value and the assign of the
\* weights, whose gradient depends on the bias, runs after it
C28_Witness ==
    /\ last.op = "training_op"
    /\ last.result.done = StepNodes
    /\ StepOld = <<1, 1>> /\ last.result.vars = <<-3, -1>>

\* C28 happens: a state in the middle of a step, one parameter updated, the
\* other not yet
C28_WitnessMid ==
    /\ last.op = "training_op"
    /\ <<"assign", 2>> \in last.result.done /\ <<"assign", 1>> \notin last.result.done
    /\ last.result.vars[2] # StepOld[2]

\* the trace of the last train call and the positions of its entries of kind e
Trace == last.events
At(e) == {j \in 1..Len(Trace) : Trace[j].e = e}

\* the saver of the instance of the last call still keeps the checkpoint of
\* name n (it is among the max_to_keep last ones it wrote)
KeptByCall(n) == \E q \in 1..Len(last.post.kept) : last.post.kept[q] = n

\* C29: a train call that reaches its loop first initialises or restores the
\* weights, then runs the initial validation; every periodic checkpoint is
\* directly followed by the update of the same batch and holds the
\* parameters from before that update (its file, as long as the saver keeps
\* it, holds them too); the updates run in step order; a
\* metrics row directly follows the last update of its epoch; and nothing
\* is evaluated on uninitialised parameters.
C29_TrainOrder ==
    (last.op = "train" /\ last.looped)
        => LET nb == TrainBatchCount
           IN /\ Len(Trace) >= 2
              /\ Trace[1].e = "init_weights"
              /\ Trace[2] = Event("validation", 0, last.w0)
              /\ At("init_weights") = {1}
              /\ \A j \in 2..Len(Trace) : Trace[j].w # Uninit
              /\ \A j \in At("checkpoint") :
                    /\ j < Len(Trace)
                    /\ Trace[j + 1] = Event("update", Trace[j].k, Trace[j].w)
                    /\ Trace[j].w = last.w0 + Trace[j].k
                    /\ KeptByCall(CkptName(ToString(Trace[j].k \div nb),
                                           ToString(Trace[j].k % nb),
                                           LossValue(Trace[j].w)))
                          => \E c \in WrittenCkpts :
                                /\ c.name = CkptName(ToString(Trace[j].k \div nb),
                                                     ToString(Trace[j].k % nb),
                                                     LossValue(Trace[j].w))
                                /\ c.w = Trace[j].w
              /\ \A k \in 0..(Len(last.batches) - 1) :
                    \E j \in At("update") :
                       /\ Trace[j].k = k /\ Trace[j].w = last.w0 + k
                       /\ \A h \in At("update") : Trace[h].k < k => h < j
                       /\ SavedAt(k) => (j > 1 /\ Trace[j - 1].e = "checkpoint")
              /\ Cardinality(At("update")) = Len(last.batches)
              /\ Cardinality(At("checkpoint")) = Len(last.saved)
              /\ \A j \in At("row") :
                    /\ Trace[j - 1].e = "update"
                    /\ Trace[j - 1].k = (Trace[j].k + 1) * nb - 1
                    /\ Trace[j].w = Trace[j - 1].w + 1
              /\ \A j \in At("update") :
                    (last.pre.save_loss_acc /\ Trace[j].k % nb = nb - 1
                     /\ j < Len(Trace))
                       => Trace[j + 1].e = "row"

\* C29 happens: a train call of two epochs of two batches saved a checkpoint
\* before an update in the middle of an epoch and wrote both metrics rows
C29_Witness ==
    /\ last.op = "train" /\ last.outcome = "ok" /\ last.pre.save_loss_acc
    /\ TrainEpochs = 2 /\ TrainBatchCount = 2
    /\ SavedAt(1) /\ Cardinality(At("row")) = 2
    /\ Cardinality(At("update")) = 4

\* C30: on a built instance that has completed a train call, a further train
\* call with a batch size the data allows reaches its first batch with the
\* parameters the previous call left, or those of a checkpoint of the run,
\* and never with freshly initialised ones, with automatic_restore True or
\* False.
C30_ParametersSurvive ==
    (/\ last.op = "train" /\ last.pre.trains >= 1
     /\ TrainN >= TrainBatchSize)
        => /\ last.looped
           /\ ~last.fresh
           /\ \/ last.w0 = last.pre.w
              \/ \E c \in last.predir.ckpts : c.w = last.w0

\* C31: a create_mlp_graph call that ends the process leaves the metadata
\* file of the run as it was: a layer block is in the file only when the
\* build that wrote it completed. This covers an unknown loss name, a
\* callable activation of a module that is not allowed, and an input dtype
\* that is not supported.
C31_FatalBuildLeavesMetadata ==
    (last.op = "create_mlp_graph" /\ last.outcome # "ok")
        => LastDir.meta = last.predir.meta

\* C32: after a build that succeeds the dtype of y_out is the declared
\* output dtype, the dtype of the label placeholder, and the modulus is taken
\* only when the declared output dtype is real: a graph declared with complex
\* input and output exposes a complex y_out whatever the last activation is.
C32_OutputDomain ==
    (BuildCall /\ last.outcome = "ok")
        => LET g == last.post.graph
           IN /\ g.y_out_dtype = BuildOutputDType
              /\ g.out_dtype # BuildOutputDType => BuildOutputDType = "float32"

====
